---- MODULE Spec2Model ----
(***************************************************************************)
(* State-machine model of the orchestration core of whatsapp-poke:         *)
(*   - ExecutionBatchManager (agents/execution_agent/batch_manager.py)     *)
(*     driven by the interaction agent's send_message_to_agent tool;       *)
(*   - TriggerScheduler / TriggerService / TriggerStore                    *)
(*     (services/trigger_scheduler.py, services/triggers/*.py);            *)
(*   - the conversation log, the working-memory file and the summarization *)
(*     worker (services/conversation/log.py, summarization/*.py);          *)
(*   - the tool-calling loops of the two agent runtimes                    *)
(*     (agents/execution_agent/runtime.py, interaction_agent/runtime.py).  *)
(* Steps are the stretches of code between two suspension points of the    *)
(* asyncio event loop: asyncio.Lock is never contended here (no await is   *)
(* made while it is held), so acquiring it never suspends.                 *)
(***************************************************************************)
EXTENDS Integers, Sequences, FiniteSets, TLC

VARIABLES
    batch_state,    \* ExecutionBatchManager._batch_state (open = FALSE is None)
    pending_exec,   \* ExecutionBatchManager._pending: request_id -> PendingExecution
    tasks,          \* the _execute_async tasks, in creation order, with their locals
    next_uuid,      \* number of batch ids drawn so far (uuid.uuid4() is fresh)
    dispatched,     \* payloads handed to _dispatch_to_interaction_agent, in order
    turn,           \* number of conversational turns started
    turn_pc,        \* "idle" | "llm": the interaction loop awaits a completion
    round,          \* number of tool rounds run so far (stamps the tasks of a round)
    store,          \* TriggerStore: the rows of table triggers, row i has id i
    now,            \* the clock (datetime.now), in ticks
    in_flight,      \* TriggerScheduler._in_flight
    execs,          \* the live _execute_trigger tasks with their locals
    last_event,     \* the execution that ended, or the update made, in the last step (history)
    running,        \* TriggerScheduler._running, with its _run task alive
    launched,       \* per trigger id, the next_trigger of its latest launch (history)
    settings,       \* get_settings(): conversation_summary_threshold and _tail_size
    conv_log,       \* the lines of poke_conversation.log
    wm_file,        \* poke_working_memory.log: summary_info, summary and entry lines
    summ_pending,   \* scheduler._pending
    summ_running,   \* scheduler._running
    workers,        \* the _run_worker tasks, in creation order, with their locals
    appended,       \* number of record_* calls made so far (stamps the entries)
    loop_step,      \* what the event-loop thread is in the middle of, between two locks
    clear_pc,       \* "idle" | "log_cleared": the threadpool thread running clear()
    clears,         \* number of clear() calls started
    summ_event,     \* the fold that committed in the last step, if one did (history)
    fold_failed,    \* some fold has ended with an error (history)
    run,            \* one run of a tool-calling loop: kind, position, iteration, result
    round_calls,    \* the tool calls of the current round: raw, parsed, next to process
    messages,       \* the messages list, from the last assistant entry on
    transcript,     \* what the run added to its agent's transcript since the last response
    codec           \* one payload on its way through a log file and back: text, file, entries read

trigVars == <<store, now, in_flight, execs, last_event, running, launched>>

summVars == <<settings, conv_log, wm_file, summ_pending, summ_running, workers,
              appended, loop_step, clear_pc, clears, summ_event, fold_failed>>

toolVars == <<run, round_calls, messages, transcript>>

codecVars == <<codec>>

batchVars == <<batch_state, pending_exec, tasks, next_uuid, dispatched, turn, turn_pc, round>>

----------------------------------------------------------------------------
(* Bounds of the model *)

MaxTasks == 2
MaxTurns == 2
MaxPerRound == 2

\* Agent names the interaction agent dispatches to. No branch of the batch
\* manager reads the name, so the n-th dispatch goes to a fixed one of the two:
\* digests then hold both equal and different names.
Agents == <<"mail", "cal">>
AgentOfDispatch(n) == Agents[((n - 1) % Len(Agents)) + 1]
CallerIds == {"job"}
Outcomes == {"success", "failed", "timeout", "exception"}

----------------------------------------------------------------------------
(* ExecutionBatchManager *)

\* _batch_state = None
NoBatch == [open |-> FALSE, batch_id |-> 0, pending |-> 0, results |-> <<>>]

\* uuid.uuid4() for a request: fresh for every execute_agent call
Uuid(i) == <<"uuid", i>>

\* execute_agent, lines 55-56: a missing request_id is replaced by a fresh uuid
RequestIdOf(i) == IF tasks[i].given = "" THEN Uuid(i) ELSE <<"caller", tasks[i].given>>

\* dict.pop(request_id, None)
PopPending(pend, rid) == [r \in (DOMAIN pend) \ {rid} |-> pend[r]]

\* The ExecutionResult execute_agent builds for task i (lines 63-84): the
\* runtime's own result, or the synthesized timeout / exception result.
\* `task` identifies the result object.
ResultOfTimeoutSucceeds(i, outcome) ==
    [task       |-> i,
     agent_name |-> tasks[i].agent,
     success    |-> (outcome \in {"success", "timeout"}),
     response   |-> CASE outcome = "success"   -> "done"
                      [] outcome = "failed"    -> "Failed to complete task"
                      [] outcome = "timeout"   -> "Execution timed out"
                      [] outcome = "exception" -> "Execution failed",
     error      |-> CASE outcome = "success"   -> ""
                      [] outcome = "failed"    -> "limit"
                      [] outcome = "timeout"   -> ""
                      [] outcome = "exception" -> "exc"]

ResultOf(i, outcome) ==
    [task       |-> i,
     agent_name |-> tasks[i].agent,
     success    |-> (outcome = "success"),
     response   |-> CASE outcome = "success"   -> "done"
                      [] outcome = "failed"    -> "Failed to complete task"
                      [] outcome = "timeout"   -> "Execution timed out"
                      [] outcome = "exception" -> "Execution failed",
     error      |-> CASE outcome = "success"   -> ""
                      [] outcome = "failed"    -> "limit"
                      [] outcome = "timeout"   -> "Timeout"
                      [] outcome = "exception" -> "exc"]

\* _format_batch_payload: one "[STATUS] agent: response" line per result, in
\* the order of the results list
FormatBatchPayload(results) ==
    [k \in 1..Len(results) |->
        [status |-> IF results[k].success THEN "SUCCESS" ELSE "FAILED",
         agent  |-> results[k].agent_name,
         text   |-> IF results[k].response = "" THEN "(no response provided)"
                    ELSE results[k].response,
         task   |-> results[k].task]]

\* _register_pending_execution: the batch state after attaching one execution
RegisteredBatchDropIncrement(bs, fresh) ==
    IF ~bs.open
    THEN [open |-> TRUE, batch_id |-> fresh, pending |-> 1, results |-> <<>>]
    ELSE bs

RegisteredBatch(bs, fresh) ==
    IF ~bs.open
    THEN [open |-> TRUE, batch_id |-> fresh, pending |-> 1, results |-> <<>>]
    ELSE [bs EXCEPT !.pending = @ + 1]

\* _complete_execution, lines 134-135: the batch after recording a result
RecordedBatchLoseResult(bs, result) ==
    [bs EXCEPT !.pending = @ - 1]

RecordedBatchPrepend(bs, result) ==
    [bs EXCEPT !.results = <<result>> \o @, !.pending = @ - 1]

RecordedBatch(bs, result) ==
    [bs EXCEPT !.results = Append(@, result), !.pending = @ - 1]

\* _complete_execution, line 130: the result belongs to the open batch
KnownBatchAnyOpen(bs, batch_id) == bs.open

KnownBatch(bs, batch_id) == bs.open /\ bs.batch_id = batch_id

----------------------------------------------------------------------------
(* Conversational turns: InteractionAgentRuntime._run_interaction_loop *)

\* Tasks made by loop.create_task start before the event loop handles the next
\* I/O event, so before any completion response reaches an interaction loop
NoneCreated == \A j \in 1..Len(tasks) : tasks[j].pc # "created"

NewTask(a, rid) ==
    [turn |-> turn, round |-> round + 1, agent |-> a, given |-> rid,
     pc |-> "created", batch_id |-> 0, outcome |-> "none", seq |-> 0]

\* execute / handle_agent_message enter the loop and await the first completion
StartTurn ==
    /\ turn_pc = "idle"
    /\ NoneCreated
    /\ turn < MaxTurns
    /\ turn' = turn + 1
    /\ turn_pc' = "llm"
    /\ UNCHANGED <<batch_state, pending_exec, tasks, next_uuid, dispatched, round>>
    /\ UNCHANGED <<trigVars, summVars, toolVars, codecVars>>

\* One loop iteration whose response holds k send_message_to_agent calls: the
\* tool runs synchronously and creates one task per call (loop.create_task);
\* the loop then awaits the next completion.
ToolRoundOf(k) ==
    /\ turn_pc = "llm"
    /\ NoneCreated
    /\ tasks' = tasks \o [j \in 1..k |-> NewTask(AgentOfDispatch(Len(tasks) + j), "")]
    /\ round' = round + 1
    /\ UNCHANGED <<batch_state, pending_exec, next_uuid, dispatched, turn, turn_pc>>
    /\ UNCHANGED <<trigVars, summVars, toolVars, codecVars>>

ToolRound ==
    \E k \in 1..MaxPerRound :
        /\ Len(tasks) + k <= MaxTasks
        /\ ToolRoundOf(k)

\* The first tool round of a conversation dispatches RoundOfThree task agents
RoundOfThree == 3

ThreeDispatches ==
    /\ tasks = <<>>
    /\ ToolRoundOf(RoundOfThree)

\* A response without tool calls ends the loop and the turn
FinalResponse ==
    /\ turn_pc = "llm"
    /\ NoneCreated
    /\ turn_pc' = "idle"
    /\ UNCHANGED <<batch_state, pending_exec, tasks, next_uuid, dispatched, turn, round>>
    /\ UNCHANGED <<trigVars, summVars, toolVars, codecVars>>

----------------------------------------------------------------------------
(* Task steps: _execute_async -> ExecutionBatchManager.execute_agent *)

\* execute_agent up to the await of runtime.execute, run by task i: the
\* request is registered. The event loop starts tasks in creation order.
RegisterExecution(i) ==
    /\ tasks[i].pc = "created"
    /\ \A j \in 1..(i - 1) : tasks[j].pc # "created"
    /\ LET rid == RequestIdOf(i)
           bs  == RegisteredBatch(batch_state, next_uuid + 1)
       IN /\ batch_state' = bs
          /\ next_uuid' = IF batch_state.open THEN next_uuid ELSE next_uuid + 1
          /\ pending_exec' =
                [r \in (DOMAIN pending_exec) \cup {rid} |->
                    IF r = rid
                    THEN [agent_name |-> tasks[i].agent, batch_id |-> bs.batch_id]
                    ELSE pending_exec[r]]
          /\ tasks' = [tasks EXCEPT ![i].pc = "running", ![i].batch_id = bs.batch_id]
    /\ UNCHANGED <<dispatched, turn, turn_pc, round>>

\* First step of task i
TaskStart(i) ==
    /\ RegisterExecution(i)
    /\ UNCHANGED <<trigVars, summVars, toolVars, codecVars>>

\* Number of execute_agent calls that have reached _complete_execution
CompletedCalls == Cardinality({j \in 1..Len(tasks) : tasks[j].pc = "done"})

\* execute_agent after the await, run by task i: runtime.execute returned,
\* timed out or raised; the finally clause pops the request and
\* _complete_execution records the result.
\* A task created in the same round has started by then: its first step was
\* queued before the I/O callback that resumes task i.
CompleteExecution(i, outcome) ==
    /\ tasks[i].pc = "running"
    /\ \A j \in 1..Len(tasks) : tasks[j].pc = "created" => tasks[j].round # tasks[i].round
    /\ pending_exec' = PopPending(pending_exec, RequestIdOf(i))
    /\ tasks' = [tasks EXCEPT ![i].pc = "done", ![i].outcome = outcome,
                              ![i].seq = CompletedCalls + 1]
    /\ IF ~KnownBatch(batch_state, tasks[i].batch_id)
       THEN \* "Dropping result for unknown batch"
            UNCHANGED <<batch_state, dispatched>>
       ELSE LET bs == RecordedBatch(batch_state, ResultOf(i, outcome))
            IN IF bs.pending = 0
               THEN /\ batch_state' = NoBatch
                    /\ dispatched' = Append(dispatched,
                           [batch |-> bs.batch_id, payload |-> FormatBatchPayload(bs.results)])
               ELSE /\ batch_state' = bs
                    /\ UNCHANGED dispatched
    /\ UNCHANGED <<next_uuid, turn, turn_pc, round>>

\* Last step of task i
TaskComplete(i, outcome) ==
    /\ CompleteExecution(i, outcome)
    /\ UNCHANGED <<trigVars, summVars, toolVars, codecVars>>

\* Task i is cancelled while it awaits runtime.execute: CancelledError is not
\* an Exception, so only the finally clause (line 86) runs.
Cancel(i) ==
    /\ tasks[i].pc = "running"
    /\ pending_exec' = PopPending(pending_exec, RequestIdOf(i))
    /\ tasks' = [tasks EXCEPT ![i].pc = "cancelled"]
    /\ UNCHANGED <<batch_state, next_uuid, dispatched, turn, turn_pc, round>>
    /\ UNCHANGED <<trigVars, summVars, toolVars, codecVars>>

\* ExecutionBatchManager.shutdown
Shutdown ==
    /\ batch_state.open \/ DOMAIN pending_exec # {}
    /\ pending_exec' = [r \in {} |-> 0]
    /\ batch_state' = NoBatch
    /\ UNCHANGED <<tasks, next_uuid, dispatched, turn, turn_pc, round>>
    /\ UNCHANGED <<trigVars, summVars, toolVars, codecVars>>

\* A direct execute_agent call with a caller-supplied request_id
ExecuteAgentCall ==
    /\ Len(tasks) < MaxTasks
    /\ \E rid \in CallerIds :
         tasks' = Append(tasks, [NewTask(AgentOfDispatch(Len(tasks) + 1), rid) EXCEPT !.turn = 0])
    /\ round' = round + 1
    /\ UNCHANGED <<batch_state, pending_exec, next_uuid, dispatched, turn, turn_pc>>
    /\ UNCHANGED <<trigVars, summVars, toolVars, codecVars>>

----------------------------------------------------------------------------
(* Triggers: time, recurrence rules and the store's rows *)

MaxTime == 8
MaxTriggers == 1
TicksPerSecond == 2

\* SQL NULL / None for a timestamp, a rule and a text column
NoTime == -1
NoRule == [dtstart |-> 0, interval |-> 0, count |-> 0]
NULL == "NULL"

\* to_storage_timestamp: isoformat(timespec="seconds") drops the fraction
to_storage_timestamp(t) == t - (t % TicksPerSecond)

\* Recurrence rules an agent may ask for: every 2 seconds without end, and
\* every second with COUNT=2 (count 0: no COUNT part)
RuleInputs == {[interval |-> 2 * TicksPerSecond, count |-> 0],
               [interval |-> TicksPerSecond, count |-> 2]}

\* build_recurrence: the rule text with its DTSTART line, whole seconds
build_recurrence(rule_in, start) ==
    [dtstart |-> to_storage_timestamp(start), interval |-> rule_in.interval,
     count |-> rule_in.count]

\* The occurrences of a stored rule (dateutil rrulestr), as far as the clock
\* and one more period reach
Occurrences(rule) ==
    {rule.dtstart + k * rule.interval :
        k \in 0..(IF rule.count > 0 THEN rule.count - 1 ELSE MaxTime + 1)}

Earliest(S) == IF S = {} THEN NoTime ELSE CHOOSE x \in S : \A y \in S : x <= y

\* rrule.after(dt, inc): the first occurrence after dt, or at dt when inc
RuleAfter(rule, dt, inc) ==
    Earliest({o \in Occurrences(rule) : IF inc THEN o >= dt ELSE o > dt})

\* TriggerService._compute_next_fire
compute_next_fire(stored_recurrence, start, t) ==
    IF stored_recurrence # NoRule THEN RuleAfter(stored_recurrence, t, TRUE) ELSE start

\* TriggerService._compute_next_after
compute_next_afterInclusive(stored_recurrence, fired_at) ==
    RuleAfter(stored_recurrence, fired_at, TRUE)

compute_next_after(stored_recurrence, fired_at) ==
    RuleAfter(stored_recurrence, fired_at, FALSE)

StoredTime(t) == IF t = NoTime THEN NoTime ELSE to_storage_timestamp(t)

\* TriggerService.mark_as_completed
mark_as_completedKeepNext(row) ==
    [row EXCEPT !.status = "completed", !.last_error = NULL]

mark_as_completed(row) ==
    [row EXCEPT !.status = "completed", !.next_trigger = NoTime, !.last_error = NULL]

\* TriggerService.schedule_next_occurrence, on the row of trigger.id; `rule`
\* is trigger.recurrence_rule of the record the caller holds
schedule_next_occurrence(row, rule, fired_at) ==
    IF rule = NoRule
    THEN mark_as_completed(row)
    ELSE LET next_fire == compute_next_after(rule, fired_at)
         IN [row EXCEPT !.next_trigger = StoredTime(next_fire),
                        !.last_error = NULL,
                        !.status = IF next_fire = NoTime THEN "completed" ELSE @]

\* TriggerService.record_failure
record_failure(row, error) == [row EXCEPT !.last_error = error]

\* TriggerService.clear_next_fire
clear_next_fireComplete(row) == [row EXCEPT !.next_trigger = NoTime, !.status = "completed"]

clear_next_fire(row) == [row EXCEPT !.next_trigger = NoTime]

\* TriggerScheduler._handle_success
handle_success(row, rule, fired_at) == schedule_next_occurrence(row, rule, fired_at)

\* TriggerScheduler._handle_failure
handle_failureHalts(row, rule, fired_at, error) ==
    clear_next_fire(record_failure(row, error))

handle_failure(row, rule, fired_at, error) ==
    LET failed == record_failure(row, error)
    IN IF rule # NoRule
       THEN schedule_next_occurrence(failed, rule, fired_at)
       ELSE clear_next_fire(failed)

\* TriggerStore.fetch_due: ids of the active rows due at the cutoff, ORDER BY
\* next_trigger, id
IsDueAnyStatus(row, before_iso) ==
    row.next_trigger # NoTime /\ row.next_trigger <= before_iso

IsDue(row, before_iso) ==
    row.status = "active" /\ row.next_trigger # NoTime /\ row.next_trigger <= before_iso

RECURSIVE SortDue(_)
SortDue(ids) ==
    IF ids = {} THEN <<>>
    ELSE LET first == CHOOSE i \in ids : \A j \in ids :
                         \/ store[i].next_trigger < store[j].next_trigger
                         \/ /\ store[i].next_trigger = store[j].next_trigger
                            /\ i <= j
         IN <<first>> \o SortDue(ids \ {first})

fetch_due(before_iso) == SortDue({i \in 1..Len(store) : IsDue(store[i], before_iso)})

\* _poll_once, lines 75-76: triggers already in flight are skipped
LaunchableIgnoringInFlight(due) == due

Launchable(due) == SelectSeq(due, LAMBDA id : id \notin in_flight)

SeqToSet(q) == {q[k] : k \in DOMAIN q}

----------------------------------------------------------------------------
(* Trigger actions *)

\* error_text of a failed result (line 100), str(exc) of a raised exception
ErrorText(kind) == IF kind = "raised" THEN "exc" ELSE "Timeout"

NoEvent == [kind |-> "none", id |-> 0, fired_at |-> NoTime, rule |-> NoRule, due |-> NoTime,
            status |-> "none", scheduled_for |-> NoTime]

\* The clock advances
Tick ==
    /\ now < MaxTime
    /\ now' = now + 1
    /\ last_event' = NoEvent
    /\ UNCHANGED <<store, in_flight, execs, running, launched>>
    /\ UNCHANGED <<batchVars, summVars, toolVars, codecVars>>

\* TriggerService.create_trigger (timezone UTC): a one-shot trigger
\* (rule_in = NoRule) or a recurring one, starting at start_time or, without
\* one, now
CreateTrigger ==
    /\ Len(store) < MaxTriggers
    /\ \E rule_in \in RuleInputs \cup {NoRule}, start_time \in {NoTime, now + TicksPerSecond} :
         LET start_dt_local == IF start_time = NoTime THEN now ELSE start_time
             stored_recurrence ==
                 IF rule_in = NoRule THEN NoRule
                 ELSE build_recurrence(rule_in, start_dt_local)
             next_fire == compute_next_fire(stored_recurrence, start_dt_local, now)
         IN store' = Append(store,
                [start_time      |-> to_storage_timestamp(start_dt_local),
                 next_trigger    |-> StoredTime(next_fire),
                 recurrence_rule |-> stored_recurrence,
                 status          |-> "active",
                 payload         |-> "p0",
                 last_error      |-> NULL])
    /\ last_event' = NoEvent
    /\ launched' = Append(launched, NoTime)
    /\ UNCHANGED <<now, in_flight, execs, running>>
    /\ UNCHANGED <<batchVars, summVars, toolVars, codecVars>>

\* TriggerScheduler._poll_once: every due trigger that is not in flight is
\* added to _in_flight and gets an _execute_trigger task holding its record
PollOnce ==
    /\ running
    /\ LET launch == Launchable(fetch_due(to_storage_timestamp(now)))
       IN /\ launch # <<>>
          /\ in_flight' = in_flight \cup SeqToSet(launch)
          /\ execs' = execs \o
                [k \in 1..Len(launch) |->
                    [id |-> launch[k], rule |-> store[launch[k]].recurrence_rule,
                     scheduled_for |-> store[launch[k]].next_trigger,
                     pc |-> "created", fired_at |-> NoTime]]
          /\ launched' = [id \in DOMAIN launched |->
                            IF id \in SeqToSet(launch) THEN store[id].next_trigger
                            ELSE launched[id]]
    /\ last_event' = NoEvent
    /\ UNCHANGED <<store, now, running>>
    /\ UNCHANGED <<batchVars, summVars, toolVars, codecVars>>

\* _execute_trigger up to the await of execute_agent: fired_at is read
ExecStart(e) ==
    /\ execs[e].pc = "created"
    /\ execs' = [execs EXCEPT ![e].pc = "running", ![e].fired_at = now]
    /\ last_event' = NoEvent
    /\ UNCHANGED <<store, now, in_flight, running, launched>>
    /\ UNCHANGED <<batchVars, summVars, toolVars, codecVars>>

RemoveAt(q, e) == [k \in 1..(Len(q) - 1) |-> IF k < e THEN q[k] ELSE q[k + 1]]

\* _execute_trigger after execute_agent: the success or failure handler
\* updates the store, and the finally clause discards the id. kind "raised"
\* is the except branch, which passes the current time as fired_at.
ExecFinish(e, kind) ==
    /\ execs[e].pc = "running"
    /\ LET id       == execs[e].id
           rule     == execs[e].rule
           fired_at == IF kind = "raised" THEN now ELSE execs[e].fired_at
           error    == ErrorText(kind)
       IN /\ store' = [store EXCEPT ![id] =
                          IF kind = "success"
                          THEN handle_success(@, rule, fired_at)
                          ELSE handle_failure(@, rule, fired_at, error)]
          /\ last_event' = [kind |-> kind, id |-> id, fired_at |-> fired_at,
                             rule |-> rule, due |-> store[id].next_trigger,
                             status |-> store[id].status,
                             scheduled_for |-> execs[e].scheduled_for]
          /\ in_flight' = in_flight \ {id}
    /\ execs' = RemoveAt(execs, e)
    /\ UNCHANGED <<now, running, launched>>
    /\ UNCHANGED <<batchVars, summVars, toolVars, codecVars>>

FinishKinds == {"success", "failure", "raised"}

\* TriggerScheduler.start: the flag is set and the _run task created
StartScheduler ==
    /\ ~running
    /\ running' = TRUE
    /\ last_event' = NoEvent
    /\ UNCHANGED <<store, now, in_flight, execs, launched>>
    /\ UNCHANGED <<batchVars, summVars, toolVars, codecVars>>

\* TriggerScheduler.stop: the flag is cleared and the _run task, which is
\* suspended in its sleep (no await is made inside _poll_once), is cancelled;
\* the _execute_trigger tasks are other tasks and are left alone
StopSchedulerCancelsAll ==
    /\ running
    /\ running' = FALSE
    /\ execs' = <<>>
    /\ last_event' = NoEvent
    /\ UNCHANGED <<store, now, in_flight, launched>>
    /\ UNCHANGED <<batchVars, summVars, toolVars, codecVars>>

StopScheduler ==
    /\ running
    /\ running' = FALSE
    /\ last_event' = NoEvent
    /\ UNCHANGED <<store, now, in_flight, execs, launched>>
    /\ UNCHANGED <<batchVars, summVars, toolVars, codecVars>>

\* MISSED_TRIGGER_GRACE_PERIOD: 5 minutes in the program, in the model as
\* many ticks of its clock
MISSED_TRIGGER_GRACE_PERIOD == 3

\* The statuses an agent sets through update_trigger
StatusInputs == {"active", "paused", "completed"}

\* None, for an argument that the caller leaves out
None == "None"

\* The payload an agent writes through update_trigger
NewPayload == "p1"

\* TimezoneStore.get_timezone: the cached name or the default one, never None
get_timezone == "UTC"

\* _update_trigger_tool: the arguments with which it calls
\* TriggerService.update_trigger. payload, recurrence_rule, start_time and
\* status are the agent's (here: one of them at a time, and no start_time);
\* timezone_name is always the timezone store's.
UpdateInputs ==
    {[payload |-> p, recurrence_rule |-> r, start_time |-> NoTime,
      timezone_name |-> get_timezone, status |-> s] :
        p \in {None, NewPayload}, r \in RuleInputs \cup {NoRule},
        s \in StatusInputs \cup {None}}
    \ {a \in [payload : {None, NewPayload}, recurrence_rule : RuleInputs \cup {NoRule},
             start_time : {NoTime}, timezone_name : {get_timezone},
             status : StatusInputs \cup {None}] :
          Cardinality({k \in {"p", "r", "s"} :
                          \/ k = "p" /\ a.payload # None
                          \/ k = "r" /\ a.recurrence_rule # NoRule
                          \/ k = "s" /\ a.status # None}) # 1}

\* TriggerService.update_trigger (timezone UTC): the row it writes at time t
update_trigger(row, args, t) ==
    LET start_dt_local == IF args.start_time # NoTime THEN args.start_time
                          ELSE row.start_time
        status_changed_to_active ==
            args.status # None /\ args.status = "active" /\ row.status # "active"
        schedule_inputs_changed ==
            \/ args.recurrence_rule # NoRule
            \/ args.start_time # NoTime
            \/ args.timezone_name # None
        recurrence_source == IF args.recurrence_rule # NoRule THEN args.recurrence_rule
                             ELSE row.recurrence_rule
        stored_recurrence ==
            IF schedule_inputs_changed
            THEN IF recurrence_source # NoRule
                 THEN build_recurrence(recurrence_source, start_dt_local)
                 ELSE NoRule
            ELSE recurrence_source
        next_trigger_dt == row.next_trigger
        should_recompute_schedule ==
            \/ schedule_inputs_changed
            \/ /\ status_changed_to_active
               /\ \/ next_trigger_dt = NoTime
                  \/ t - next_trigger_dt > MISSED_TRIGGER_GRACE_PERIOD
        computed == compute_next_fire(stored_recurrence, start_dt_local, t)
        next_fire == IF /\ stored_recurrence = NoRule
                        /\ args.recurrence_rule = NoRule
                        /\ args.start_time = NoTime
                        /\ status_changed_to_active
                        /\ computed # NoTime
                        /\ computed <= t
                     THEN t ELSE computed
    IN [row EXCEPT
          !.payload = IF args.payload # None THEN args.payload ELSE @,
          !.status = IF args.status # None THEN args.status ELSE @,
          !.start_time = IF args.start_time # NoTime
                         THEN to_storage_timestamp(start_dt_local) ELSE @,
          !.next_trigger = IF should_recompute_schedule THEN StoredTime(next_fire) ELSE @,
          !.recurrence_rule = IF schedule_inputs_changed THEN stored_recurrence ELSE @]

\* What an update did, for the record of the last step
UpdateKind(row, args) ==
    IF args.status = "active" /\ row.status = "paused" THEN "resumed"
    ELSE IF args.status = "paused" THEN "paused"
    ELSE IF args.payload # None THEN "payload"
    ELSE IF args.recurrence_rule # NoRule THEN "rule"
    ELSE "updated"

\* An agent calls the updateTrigger tool on one of its triggers
UpdateTrigger ==
    /\ \E id \in 1..Len(store), args \in UpdateInputs :
         /\ store' = [store EXCEPT ![id] = update_trigger(@, args, now)]
         /\ last_event' =
               [kind |-> UpdateKind(store[id], args),
                id |-> id, fired_at |-> now, rule |-> store[id].recurrence_rule,
                due |-> store[id].next_trigger, status |-> store[id].status,
                scheduled_for |-> NoTime]
    /\ UNCHANGED <<now, in_flight, execs, running, launched>>
    /\ UNCHANGED <<batchVars, summVars, toolVars, codecVars>>

----------------------------------------------------------------------------
(* Conversation log, working-memory file and the summarization worker.     *)
(* ConversationLog and WorkingMemoryLog guard each file with its own       *)
(* threading.Lock. Every record_* call and the whole summarization worker  *)
(* run on the event-loop thread; DELETE /chat/history is a plain def       *)
(* route, which the framework runs on a threadpool thread, so clear() can  *)
(* run between any two lock sections of the event-loop thread.             *)

MaxAppends == 7
MaxClears == 1

\* Settings the model starts from: (conversation_summary_threshold,
\* conversation_summary_tail_size)
SettingsInputs ==
    { [threshold |-> 0, tail_size |-> 1],
      [threshold |-> 2, tail_size |-> 1],
      [threshold |-> 5, tail_size |-> 2] }

DefaultSettings == [threshold |-> 100, tail_size |-> 10]

\* Settings.summarization_enabled
summarization_enabled == settings.threshold > 0

\* The tags and payloads of the record_* calls, by call number
Tags == <<"user_message", "poke_reply">>
Payloads == <<"one line", "two<CRLF>lines", "two<LF>lines">>
TagOfAppend(k) == Tags[((k - 1) % Len(Tags)) + 1]
PayloadOfAppend(k) == Payloads[((k - 1) % Len(Payloads)) + 1]

\* _encode_payload: \r\n and \r become \n, then \n becomes backslash-n
encode_payload(payload) ==
    IF payload \in {"two<CRLF>lines", "two<LF>lines"} THEN "two\\nlines" ELSE payload

\* _decode_payload: backslash-n becomes \n
decode_payload(text) ==
    IF text = "two\\nlines" THEN "two<LF>lines" ELSE text

\* _default_formatter / _format_line: one line of a file
format_line(tag, payload, timestamp) ==
    [tag |-> tag, timestamp |-> timestamp, text |-> encode_payload(payload)]

NoLine == [tag |-> "", timestamp |-> 0, text |-> ""]

\* _collect_entries over ConversationLog.iter_entries: the index is the
\* position on read
collect_entries(log) ==
    [k \in 1..Len(log) |->
        [tag |-> log[k].tag, payload |-> decode_payload(log[k].text),
         index |-> k - 1, timestamp |-> log[k].timestamp]]

\* The file _initialize_file_locked writes
EmptyFile == [last_index |-> -1, summary_text |-> 0, lines |-> <<>>]

\* WorkingMemoryLog.load_summary_state: entries are read without an index
load_summary_state(file) ==
    [summary_text |-> file.summary_text,
     last_index |-> file.last_index,
     unsummarized_entries |->
        [k \in 1..Len(file.lines) |->
            [tag |-> file.lines[k].tag, payload |-> decode_payload(file.lines[k].text),
             index |-> -1, timestamp |-> file.lines[k].timestamp]]]

\* WorkingMemoryLog.write_summary_state: the file that replaces the old one.
\* The variant leaves the conversation_summary line out of the new file.
write_summary_stateNoSummary(state) ==
    [last_index |-> state.last_index,
     summary_text |-> 0,
     lines |-> [k \in 1..Len(state.unsummarized_entries) |->
                  format_line(state.unsummarized_entries[k].tag,
                              state.unsummarized_entries[k].payload,
                              state.unsummarized_entries[k].timestamp)]]

write_summary_state(state) ==
    [last_index |-> state.last_index,
     summary_text |-> state.summary_text,
     lines |-> [k \in 1..Len(state.unsummarized_entries) |->
                  format_line(state.unsummarized_entries[k].tag,
                              state.unsummarized_entries[k].payload,
                              state.unsummarized_entries[k].timestamp)]]

\* [entry for entry in entries if entry.index > last_index]
EntriesAfter(entries, last_index) ==
    SelectSeq(entries, LAMBDA entry : entry.index > last_index)

\* batch = unsummarized_entries[:threshold], taken from the entries not yet
\* folded. The variant takes it from the start of the log.
FoldBatchFromStart(entries, last_index, threshold) ==
    SubSeq(entries, 1, threshold)

FoldBatch(entries, last_index, threshold) ==
    SubSeq(EntriesAfter(entries, last_index), 1, threshold)

\* if len(unsummarized_entries) < threshold + tail_size: return False
\* The variant folds only above threshold + tail_size.
ShouldFoldStrict(count) ==
    /\ settings.threshold > 0
    /\ count > settings.threshold
                 + (IF settings.tail_size > 0 THEN settings.tail_size ELSE 0)

ShouldFold(count) ==
    /\ settings.threshold > 0
    /\ ~(count < settings.threshold
                 + (IF settings.tail_size > 0 THEN settings.tail_size ELSE 0))

\* The text the completion endpoint returns for a fold up to cutoff_index
SummaryOf(cutoff_index) == cutoff_index + 1

FreeStep == [pc |-> "free", line |-> NoLine, entries |-> <<>>]

NoSummEvent == [kind |-> "none", cutoff_index |-> -1, during |-> {}, cleared |-> "no"]

\* during: the record_* calls made while the worker's completion call is
\* in flight; cleared: a clear() was issued, then done, in that time (history)
QueuedWorker ==
    [pc |-> "queued", cutoff_index |-> -1, attempt |-> 0, during |-> {}, cleared |-> "no"]

Folding == {w \in 1..Len(workers) : workers[w].pc = "fold"}
Queued == {w \in 1..Len(workers) : workers[w].pc = "queued"}

\* schedule_summarization: if not _running: loop.create_task(_run_worker())
Scheduled(ws) == IF ~summ_running THEN Append(ws, QueuedWorker) ELSE ws

\* _run_worker: "if _running: return". The variant is a worker without it.
AlreadyRunningIgnored == FALSE

AlreadyRunning == summ_running

\* _run_worker at "while _pending": the next pass starts by reading the
\* conversation log, or the worker leaves through the finally clause
ContinueWorker(w, ws, again) ==
    IF again
    THEN /\ summ_pending' = FALSE
         /\ summ_running' = TRUE
         /\ workers' = [ws EXCEPT ![w].pc = "pass"]
         /\ loop_step' = [pc |-> "load_state", line |-> NoLine,
                          entries |-> collect_entries(conv_log)]
    ELSE /\ summ_pending' = summ_pending
         /\ summ_running' = FALSE
         /\ workers' = RemoveAt(ws, w)
         /\ loop_step' = FreeStep

\* The loop condition when a pass has ended. The variant is a worker that
\* runs one pass only.
LoopOnce == FALSE

LoopAgain == summ_pending

\* ConversationLog.record_*: _append writes the line to the conversation
\* log and calls _notify_summarization -> schedule_summarization
RecordMessage ==
    /\ loop_step.pc = "free"
    /\ appended < MaxAppends
    /\ LET line == format_line(TagOfAppend(appended + 1),
                               PayloadOfAppend(appended + 1), appended + 1)
           noted == [w \in 1..Len(workers) |->
                        IF workers[w].pc = "fold"
                        THEN [workers[w] EXCEPT !.during = @ \cup {appended + 1}]
                        ELSE workers[w]]
       IN /\ conv_log' = Append(conv_log, line)
          /\ appended' = appended + 1
          /\ loop_step' = [pc |-> "append_entry", line |-> line, entries |-> <<>>]
          /\ IF summarization_enabled
             THEN /\ summ_pending' = TRUE
                  /\ workers' = Scheduled(noted)
             ELSE /\ summ_pending' = summ_pending
                  /\ workers' = noted
    /\ summ_event' = NoSummEvent
    /\ UNCHANGED <<settings, fold_failed, wm_file, summ_running, clear_pc, clears>>
    /\ UNCHANGED <<batchVars, trigVars, toolVars, codecVars>>

\* ... then WorkingMemoryLog.append_entry adds the same line to the
\* working-memory file
AppendEntry ==
    /\ loop_step.pc = "append_entry"
    /\ wm_file' = [wm_file EXCEPT !.lines = Append(@, loop_step.line)]
    /\ loop_step' = FreeStep
    /\ summ_event' = NoSummEvent
    /\ UNCHANGED <<settings, fold_failed, conv_log, summ_pending, summ_running, workers,
                   appended, clear_pc, clears>>
    /\ UNCHANGED <<batchVars, trigVars, toolVars, codecVars>>

\* _run_worker from its start: tasks start in creation order
WorkerStart ==
    /\ loop_step.pc = "free"
    /\ Queued # {}
    /\ LET w == CHOOSE q \in Queued : \A o \in Queued : q <= o
       IN IF AlreadyRunning
          THEN /\ workers' = RemoveAt(workers, w)
               /\ UNCHANGED <<summ_pending, summ_running, loop_step>>
          ELSE ContinueWorker(w, workers, summ_pending)
    /\ summ_event' = NoSummEvent
    /\ UNCHANGED <<settings, fold_failed, conv_log, wm_file, appended, clear_pc, clears>>
    /\ UNCHANGED <<batchVars, trigVars, toolVars, codecVars>>

\* summarize_conversation after _collect_entries: load the state, decide
\* whether to fold and send the completion request
LoadState ==
    /\ loop_step.pc = "load_state"
    /\ \E w \in 1..Len(workers) :
        /\ workers[w].pc = "pass"
        /\ LET state == load_summary_state(wm_file)
               unsummarized_entries == EntriesAfter(loop_step.entries, state.last_index)
               batch == FoldBatch(loop_step.entries, state.last_index, settings.threshold)
           IN IF ShouldFold(Len(unsummarized_entries))
              THEN /\ workers' = [workers EXCEPT ![w].pc = "fold",
                                                 ![w].cutoff_index = batch[Len(batch)].index,
                                                 ![w].attempt = 0,
                                                 ![w].during = {},
                                                 ![w].cleared = "no"]
                   /\ loop_step' = FreeStep
                   /\ UNCHANGED <<summ_pending, summ_running>>
              ELSE ContinueWorker(w, workers, LoopAgain)
    /\ summ_event' = NoSummEvent
    /\ UNCHANGED <<settings, fold_failed, conv_log, wm_file, appended, clear_pc, clears>>
    /\ UNCHANGED <<batchVars, trigVars, toolVars, codecVars>>

ResponseKinds == {"content", "megallm_error", "other_error"}

\* _call_megallm, "for attempt in range(2)" with "if attempt == 0: continue":
\* after `failures` failed attempts a MegaLLMError is followed by another
\* attempt. The variant allows a second retry.
RetryAfterTwice(failures) == failures < 2

RetryAfter(failures) == failures = 0

\* _call_megallm gets an answer: content ends the call and the fold reads
\* the conversation log again; a first MegaLLMError is retried; a second
\* one, or any other exception, is raised and caught by the worker
FoldResponse(w, kind) ==
    /\ loop_step.pc = "free"
    /\ w \in Folding
    /\ IF kind = "content"
       THEN /\ workers' = [workers EXCEPT ![w].pc = "commit"]
            /\ loop_step' = [pc |-> "write_state", line |-> NoLine,
                             entries |-> EntriesAfter(collect_entries(conv_log),
                                                      workers[w].cutoff_index)]
            /\ UNCHANGED <<summ_pending, summ_running>>
       ELSE IF kind = "megallm_error" /\ RetryAfter(workers[w].attempt)
       THEN /\ workers' = [workers EXCEPT ![w].attempt = @ + 1]
            /\ UNCHANGED <<summ_pending, summ_running, loop_step>>
       ELSE ContinueWorker(w, workers, LoopAgain)
    /\ fold_failed' = (fold_failed \/ kind = "other_error"
                                   \/ (kind = "megallm_error" /\ ~RetryAfter(workers[w].attempt)))
    /\ summ_event' = NoSummEvent
    /\ UNCHANGED <<settings, conv_log, wm_file, appended, clear_pc, clears>>
    /\ UNCHANGED <<batchVars, trigVars, toolVars, codecVars>>

\* summarize_conversation: write_summary_state(new_state) replaces the file,
\* and the worker goes back to "while _pending"
WriteState ==
    /\ loop_step.pc = "write_state"
    /\ \E w \in 1..Len(workers) :
        /\ workers[w].pc = "commit"
        /\ wm_file' = write_summary_state(
                          [summary_text |-> SummaryOf(workers[w].cutoff_index),
                           last_index |-> workers[w].cutoff_index,
                           unsummarized_entries |-> loop_step.entries])
        /\ summ_event' = [kind |-> "commit",
                          cutoff_index |-> workers[w].cutoff_index,
                          during |-> workers[w].during,
                          cleared |-> workers[w].cleared]
        /\ ContinueWorker(w, workers, LoopAgain)
    /\ UNCHANGED <<settings, fold_failed, conv_log, appended, clear_pc, clears>>
    /\ UNCHANGED <<batchVars, trigVars, toolVars, codecVars>>

\* ConversationLog.clear on its thread: unlink the conversation log ...
ClearLog ==
    /\ clear_pc = "idle"
    /\ clears < MaxClears
    /\ conv_log' = <<>>
    /\ clear_pc' = "log_cleared"
    /\ clears' = clears + 1
    /\ workers' = [w \in 1..Len(workers) |->
                      IF workers[w].pc = "fold"
                      THEN [workers[w] EXCEPT !.cleared = "issued"] ELSE workers[w]]
    /\ summ_event' = NoSummEvent
    /\ UNCHANGED <<settings, fold_failed, wm_file, summ_pending, summ_running,
                   appended, loop_step>>
    /\ UNCHANGED <<batchVars, trigVars, toolVars, codecVars>>

\* ... then WorkingMemoryLog.clear: unlink and write the initial file
ClearWorkingMemory ==
    /\ clear_pc = "log_cleared"
    /\ wm_file' = EmptyFile
    /\ clear_pc' = "idle"
    /\ workers' = [w \in 1..Len(workers) |->
                      IF workers[w].pc = "fold" /\ workers[w].cleared = "issued"
                      THEN [workers[w] EXCEPT !.cleared = "done"] ELSE workers[w]]
    /\ summ_event' = NoSummEvent
    /\ UNCHANGED <<settings, fold_failed, conv_log, summ_pending, summ_running,
                   appended, loop_step, clears>>
    /\ UNCHANGED <<batchVars, trigVars, toolVars, codecVars>>

----------------------------------------------------------------------------
(* The text of a log line, character by character: _encode_payload,        *)
(* _decode_payload, _default_formatter, iter_entries and _parse_line of    *)
(* services/conversation/log.py. A string is the sequence of its           *)
(* characters; LF, CR and BS stand for "\n", "\r" and the backslash. A tag *)
(* name and the timestamp attribute are one character each.                *)

MaxPayloadLen == 3

LF == "LF"
CR == "CR"
BS == "BS"

\* The characters of a payload
PayloadChars == {LF, CR, BS, "n", "<", ">", "&"}

PayloadStrings == UNION { [1..n -> PayloadChars] : n \in 0..MaxPayloadLen }

LogTags == {"user_message", "poke_reply"}

\* str.startswith
StartsWith(s, prefix) ==
    Len(prefix) <= Len(s) /\ SubSeq(s, 1, Len(prefix)) = prefix

\* s[k:], k counted from 0
DropFirst(s, k) == SubSeq(s, k + 1, Len(s))

\* str.replace(old, new): the occurrences are found from left to right and
\* do not overlap
RECURSIVE str_replace(_, _, _)
str_replace(s, old, new) ==
    IF s = << >> THEN << >>
    ELSE IF StartsWith(s, old)
    THEN new \o str_replace(DropFirst(s, Len(old)), old, new)
    ELSE <<Head(s)>> \o str_replace(Tail(s), old, new)

\* html.escape(s, quote=False)
html_escape(s) ==
    str_replace(str_replace(str_replace(s, <<"&">>, <<"&", "a", "m", "p", ";">>),
                            <<"<">>, <<"&", "l", "t", ";">>),
                <<">">>, <<"&", "g", "t", ";">>)

\* The character references html.unescape knows among the strings of the
\* model, the ones with a semicolon first: a reference also counts
\* without it
CharRefs ==
    << [name |-> <<"a", "m", "p", ";">>, char |-> "&"],
       [name |-> <<"l", "t", ";">>, char |-> "<"],
       [name |-> <<"g", "t", ";">>, char |-> ">"],
       [name |-> <<"a", "m", "p">>, char |-> "&"],
       [name |-> <<"l", "t">>, char |-> "<"],
       [name |-> <<"g", "t">>, char |-> ">"] >>

\* html.unescape
RECURSIVE html_unescape(_)
html_unescape(s) ==
    IF s = << >> THEN << >>
    ELSE LET refs == {e \in 1..Len(CharRefs) : StartsWith(Tail(s), CharRefs[e].name)}
         IN IF Head(s) = "&" /\ refs # {}
            THEN LET e == CHOOSE x \in refs : \A y \in refs : x <= y
                 IN <<CharRefs[e].char>>
                       \o html_unescape(DropFirst(Tail(s), Len(CharRefs[e].name)))
            ELSE <<Head(s)>> \o html_unescape(Tail(s))

\* _encode_payload on the characters of the payload
encode_payload_chars(payload) ==
    LET normalized == str_replace(str_replace(payload, <<CR, LF>>, <<LF>>), <<CR>>, <<LF>>)
        collapsed == str_replace(normalized, <<LF>>, <<BS, "n">>)
    IN html_escape(collapsed)

\* _decode_payload on the characters of the text
decode_payload_chars(text) ==
    str_replace(html_unescape(text), <<BS, "n">>, <<LF>>)

\* _default_formatter: the line written for an entry
default_formatter(tag, payload) ==
    <<"<", tag, " ", "timestamp", ">">> \o encode_payload_chars(payload)
        \o <<"<", "/", tag, ">", LF>>

\* str.splitlines: the text is cut at every \r\n, \n and \r
RECURSIVE splitlines(_, _)
splitlines(text, line) ==
    IF text = << >> THEN (IF line = << >> THEN << >> ELSE <<line>>)
    ELSE IF StartsWith(text, <<CR, LF>>) THEN <<line>> \o splitlines(DropFirst(text, 2), << >>)
    ELSE IF Head(text) \in {LF, CR} THEN <<line>> \o splitlines(Tail(text), << >>)
    ELSE splitlines(Tail(text), Append(line, Head(text)))

\* str.strip
RECURSIVE str_strip(_)
str_strip(s) ==
    IF s = << >> THEN s
    ELSE IF Head(s) \in {LF, CR, " "} THEN str_strip(Tail(s))
    ELSE IF s[Len(s)] \in {LF, CR, " "} THEN str_strip(SubSeq(s, 1, Len(s) - 1))
    ELSE s

\* str.find and str.rfind, 0-based, -1 if there is no occurrence
Occurrences_of(s, sub) ==
    {i \in 0..(Len(s) - Len(sub)) : StartsWith(DropFirst(s, i), sub)}

str_find(s, sub) ==
    IF Occurrences_of(s, sub) = {} THEN -1
    ELSE CHOOSE i \in Occurrences_of(s, sub) : \A j \in Occurrences_of(s, sub) : i <= j

str_rfind(s, sub) ==
    IF Occurrences_of(s, sub) = {} THEN -1
    ELSE CHOOSE i \in Occurrences_of(s, sub) : \A j \in Occurrences_of(s, sub) : i >= j

\* s[a:b] for 0 <= a
Slice(s, a, b) == IF b <= a THEN << >> ELSE SubSeq(s, a + 1, IF b > Len(s) THEN Len(s) ELSE b)

\* _parse_line returned None
NoEntry == [tag |-> << >>, payload |-> <<"None">>]

\* ConversationLog._parse_line, without the timestamp of the entry
parse_line(line) ==
    LET stripped == str_strip(line)
        open_end == str_find(stripped, <<">">>)
        open_tag_content == Slice(stripped, 1, open_end)
        tag == IF str_find(open_tag_content, <<" ">>) # -1
               THEN Slice(open_tag_content, 0, str_find(open_tag_content, <<" ">>))
               ELSE open_tag_content
        close_start == str_rfind(stripped, <<"<", "/">>)
        close_end == str_rfind(stripped, <<">">>)
        closing_tag == Slice(stripped, close_start + 2, close_end)
        payload == Slice(stripped, open_end + 1, close_start)
    IN IF ~StartsWith(stripped, <<"<">>) \/ str_find(stripped, <<"<", "/">>) = -1
       THEN NoEntry
       ELSE IF open_end = -1 THEN NoEntry
       ELSE IF close_start = -1 \/ close_end = -1 THEN NoEntry
       ELSE IF closing_tag # tag THEN NoEntry
       ELSE [tag |-> tag, payload |-> decode_payload_chars(payload)]

\* ConversationLog.iter_entries: the lines that parse
iter_entries(text) ==
    LET lines == splitlines(text, << >>)
        items == [k \in 1..Len(lines) |-> parse_line(lines[k])]
    IN SelectSeq(items, LAMBDA item : item # NoEntry)

\* No payload is on its way
NoCodec == [pc |-> "none", tag |-> "", payload |-> << >>, file |-> << >>, entries |-> << >>]

\* The line of the entry is written to the file
FormatLine ==
    /\ codec.pc = "new"
    /\ codec' = [codec EXCEPT !.pc = "written",
                              !.file = @ \o default_formatter(codec.tag, codec.payload)]
    /\ UNCHANGED <<batchVars, trigVars, summVars, toolVars>>

\* The file is read back
ReadEntries ==
    /\ codec.pc = "written"
    /\ codec' = [codec EXCEPT !.pc = "read", !.entries = iter_entries(codec.file)]
    /\ UNCHANGED <<batchVars, trigVars, summVars, toolVars>>

----------------------------------------------------------------------------
(* Tool-calling loops: ExecutionAgentRuntime.execute (kind "task") and     *)
(* InteractionAgentRuntime._run_interaction_loop (kind "conversation").    *)
(* messages keeps the part of the list that the next request adds to what  *)
(* the previous one sent: the last assistant entry and what follows it.    *)

MAX_TOOL_ITERATIONS == 8
MaxCallsPerResponse == 2

LoopKinds == {"task", "conversation"}

\* The tool invocations a response may carry. required: the tool has a
\* parameter without a default (gmail_execute_draft has, listTriggers has
\* not); raises: the tool callable raises when it runs.
ToolCallInputs ==
    { [name |-> "known", arguments |-> "valid", required |-> TRUE, raises |-> FALSE,
       message |-> ""],
      [name |-> "known", arguments |-> "valid", required |-> TRUE, raises |-> TRUE,
       message |-> ""],
      [name |-> "", arguments |-> "valid", required |-> TRUE, raises |-> FALSE,
       message |-> ""],
      [name |-> "unknown", arguments |-> "valid", required |-> TRUE, raises |-> FALSE,
       message |-> ""],
      [name |-> "known", arguments |-> "unparseable", required |-> TRUE, raises |-> FALSE,
       message |-> ""],
      [name |-> "known", arguments |-> "unparseable", required |-> FALSE, raises |-> FALSE,
       message |-> ""] }

\* The texts a send_message_to_user invocation and an assistant message
\* carry: empty, or one that Python takes as true
Texts == {"", "hi"}

\* summary.user_messages is empty
NoText == "(none)"

\* The invocations of send_message_to_user, the one tool of the interaction
\* agent whose result carries a user_message
SendMessageInputs ==
    { [name |-> "send_message_to_user", arguments |-> "valid", required |-> TRUE,
       raises |-> FALSE, message |-> m] : m \in Texts }

\* The tool invocations of a response to the interaction agent, for the
\* replies of a turn: send_message_to_user, a tool that succeeds and a tool
\* that fails. The "known" tool of the interaction agent is
\* send_message_to_agent, which writes to the log of the task agent it
\* addresses.
InteractionToolCalls ==
    LET others == {c \in ToolCallInputs :
                      c.name # "" /\ c.arguments = "valid" /\ ~c.raises}
    IN UNION { [1..n -> others \cup SendMessageInputs] : n \in 0..MaxCallsPerResponse }

\* assistant_message["tool_calls"]: up to MaxCallsPerResponse invocations,
\* the k-th carrying id k
RawToolCalls ==
    UNION { [1..n -> ToolCallInputs] : n \in 0..MaxCallsPerResponse }

\* ExecutionAgentRuntime._extract_tool_calls: arguments that json.loads
\* rejects become {}, and a call is kept only if it has a name
extract_tool_calls(raw) ==
    LET parsed == [k \in 1..Len(raw) |->
                      [id |-> k, name |-> raw[k].name,
                       arguments |-> IF raw[k].arguments = "unparseable"
                                     THEN "empty" ELSE raw[k].arguments,
                       call |-> raw[k]]]
    IN SelectSeq(parsed, LAMBDA c : c.name # "")

\* InteractionAgentRuntime._parse_tool_calls with _parse_tool_arguments:
\* a call without a name is skipped, arguments that cannot be parsed are
\* replaced by the __invalid_arguments__ marker
parse_tool_calls(raw) ==
    LET parsed == [k \in 1..Len(raw) |->
                      [id |-> k, name |-> raw[k].name,
                       arguments |-> IF raw[k].arguments = "unparseable"
                                     THEN "__invalid_arguments__" ELSE raw[k].arguments,
                       call |-> raw[k]]]
    IN SelectSeq(parsed, LAMBDA c : c.name # "")

ParsedCalls(kind, raw) ==
    IF kind = "task" THEN extract_tool_calls(raw) ELSE parse_tool_calls(raw)

\* ExecutionAgentRuntime._execute_tool: the status of the observation
execute_tool(c) ==
    IF c.name = "unknown" THEN "error"
    ELSE IF c.arguments = "empty" /\ c.call.required THEN "error"
    ELSE IF c.call.raises THEN "error"
    ELSE "success"

\* InteractionAgentRuntime._execute_tool over handle_tool_call
execute_interaction_tool(c) ==
    IF c.arguments = "__invalid_arguments__" THEN "error"
    ELSE IF c.name = "unknown" THEN "error"
    ELSE IF c.call.raises THEN "error"
    ELSE "success"

\* The tool message appended for a processed call
ToolMessage(kind, c) ==
    [role |-> "tool", tool_call_id |-> c.id,
     status |-> IF kind = "task" THEN execute_tool(c) ELSE execute_interaction_tool(c),
     tool_calls |-> 0]

AssistantEntry(raw) == [role |-> "assistant", tool_call_id |-> 0, status |-> "",
                        tool_calls |-> Len(raw)]

\* What processing call c appends to the transcript of the agent that runs
\* the loop. A task agent's record_tool_execution writes an agent_action
\* and a tool_response entry to its execution log; the interaction agent's
\* _execute_tool writes nothing (_log_tool_invocation only feeds the
\* logger), and of its tools send_message_to_user alone is modelled as
\* writing to the conversation log, a poke_reply.
ToolRecords(kind, c) ==
    IF kind = "task"
    THEN << [tag |-> "agent_action", tool_call_id |-> c.id, status |-> "", text |-> ""],
            [tag |-> "tool_response", tool_call_id |-> c.id, status |-> execute_tool(c),
             text |-> ""] >>
    ELSE IF c.name = "send_message_to_user" /\ execute_interaction_tool(c) = "success"
    THEN << [tag |-> "poke_reply", tool_call_id |-> c.id, status |-> "success",
             text |-> c.call.message] >>
    ELSE << >>

\* _run_interaction_loop, lines 174-177, on the _LoopSummary: a user_message
\* that is not empty is appended to summary.user_messages, of which the
\* code reads the last element and whether there is one
Summarized(r, kind, c) ==
    IF kind = "conversation" /\ c.name = "send_message_to_user"
       /\ execute_interaction_tool(c) = "success"
    THEN [r EXCEPT !.last_user_message = IF c.call.message # "" THEN c.call.message ELSE @,
                   !.replies = @ \cup {c.call.message}]
    ELSE r

NoRound == [raw |-> <<>>, parsed |-> <<>>, next |-> 1]

\* No result has been handed to the caller yet
NoReturn == [outcome |-> "none", success |-> FALSE, error |-> ""]

\* replies: the texts the tools of the run recorded as replies;
\* final_reply: the text the final step recorded as a reply (history)
IdleRun == [kind |-> "none", pc |-> "idle", iteration |-> 0, with_tools |-> 0,
            result |-> "none", returned |-> NoReturn, task |-> 0,
            last_user_message |-> NoText, last_assistant_text |-> "",
            replies |-> {}, response |-> "", final_reply |-> NoText]

\* What execute / handle_agent_message hand to their caller when the loop
\* ends with `result`: the success result, or, from the except Exception
\* clause around the whole body, a result with success=False and the text of
\* the exception
ReturnedResultReraise(result) ==
    IF result = "success"
    THEN [outcome |-> "result", success |-> TRUE, error |-> ""]
    ELSE [outcome |-> "raised", success |-> FALSE, error |-> result]

ReturnedResult(result) ==
    [outcome |-> "result", success |-> (result = "success"),
     error |-> IF result = "success" THEN "" ELSE result]

\* InteractionAgentRuntime._finalize_response
finalize_response(r) ==
    IF r.last_user_message # NoText THEN r.last_user_message ELSE r.last_assistant_text

\* execute / handle_agent_message: "if final_response and not
\* summary.user_messages", the condition of record_reply(final_response).
\* The variant records the final answer whenever there is one.
RecordsFinalReplyAlways(r) == finalize_response(r) # ""

RecordsFinalReply(r) == finalize_response(r) # "" /\ r.last_user_message = NoText

\* The run ends with `result`: the interaction agent's final step settles
\* the response of its result and records it as a reply if it has to
Finished(r, result) ==
    LET final == r.kind = "conversation" /\ result = "success"
    IN [r EXCEPT !.pc = "done", !.result = result,
                 !.returned = ReturnedResult(result),
                 !.response = IF final THEN finalize_response(r) ELSE "",
                 !.final_reply = IF final /\ RecordsFinalReply(r)
                                 THEN finalize_response(r) ELSE NoText]

\* What the end of a run appends to the transcript: a task agent's
\* record_response, with the final text or the error, and the interaction
\* agent's record_reply
FinalRecords(r) ==
    IF r.pc # "done" THEN << >>
    ELSE IF r.kind = "task"
    THEN << [tag |-> "agent_response", tool_call_id |-> 0, status |-> r.result,
             text |-> ""] >>
    ELSE IF r.final_reply # NoText
    THEN << [tag |-> "poke_reply", tool_call_id |-> 0, status |-> "", text |-> r.final_reply] >>
    ELSE << >>

\* The loop after the observation of a call was appended: whatever its
\* status, the for loop over the parsed calls goes on; after the last call
\* the outer loop makes the next request, or runs out and raises the
\* iteration-limit error
AfterToolAbortOnError(r, status, last) ==
    IF status = "error" THEN Finished(r, "tool_error")
    ELSE IF ~last THEN r
    ELSE IF r.iteration < MAX_TOOL_ITERATIONS THEN [r EXCEPT !.pc = "request"]
    ELSE Finished(r, "iteration_limit")

AfterTool(r, status, last) ==
    IF ~last THEN r
    ELSE IF r.iteration < MAX_TOOL_ITERATIONS THEN [r EXCEPT !.pc = "request"]
    ELSE Finished(r, "iteration_limit")

\* A run starts: messages holds the first user message, which the
\* interaction agent has recorded in the conversation log (record_user_message
\* in execute, record_agent_message in handle_agent_message)
StartRun(kind) ==
    /\ run.pc = "idle"
    /\ run' = [IdleRun EXCEPT !.kind = kind, !.pc = "request"]
    /\ round_calls' = NoRound
    /\ messages' = <<>>
    /\ transcript' = IF kind = "conversation"
                     THEN << [tag |-> "user_message", tool_call_id |-> 0, status |-> "",
                              text |-> ""] >>
                     ELSE << >>
    /\ UNCHANGED <<batchVars, trigVars, summVars, codecVars>>

\* The completion request of an iteration fails: the exception leaves the loop
RequestFails(reason) ==
    /\ run.pc = "request"
    /\ run' = Finished([run EXCEPT !.iteration = @ + 1], reason)
    /\ transcript' = transcript \o FinalRecords(run')
    /\ UNCHANGED <<round_calls, messages>>
    /\ UNCHANGED <<batchVars, trigVars, summVars, codecVars>>

FailureReasons == {"endpoint_error", "no_message"}

\* The completion request of an iteration is answered by a message with
\* the invocations raw and the text content: the assistant entry is
\* appended, and the loop ends if no parsed tool call is left
LlmResponse(raw, content) ==
    /\ run.pc = "request"
    /\ LET parsed == ParsedCalls(run.kind, raw)
       IN /\ messages' = <<AssistantEntry(raw)>>
          /\ round_calls' = [raw |-> raw, parsed |-> parsed, next |-> 1]
          /\ LET counted == [run EXCEPT
                                !.iteration = @ + 1,
                                !.with_tools = IF raw # <<>> THEN @ + 1 ELSE @,
                                !.last_assistant_text =
                                    IF run.kind = "conversation" /\ content # ""
                                    THEN content ELSE @]
             IN run' = IF parsed = <<>> THEN Finished(counted, "success")
                       ELSE [counted EXCEPT !.pc = "tools"]
          /\ transcript' = FinalRecords(run')
    /\ UNCHANGED <<batchVars, trigVars, summVars, codecVars>>

\* The next parsed tool call of the round is processed and its tool message
\* appended
ExecuteTool ==
    /\ run.pc = "tools"
    /\ LET c == round_calls.parsed[round_calls.next]
           last == round_calls.next = Len(round_calls.parsed)
       IN /\ messages' = Append(messages, ToolMessage(run.kind, c))
          /\ round_calls' = [round_calls EXCEPT !.next = @ + 1]
          /\ run' = AfterTool(Summarized(run, run.kind, c),
                              ToolMessage(run.kind, c).status, last)
          /\ transcript' = (transcript \o ToolRecords(run.kind, c)) \o FinalRecords(run')
    /\ UNCHANGED <<batchVars, trigVars, summVars, codecVars>>

\* execute_agent, lines 60-84: the outcome of the awaited runtime.execute as
\* the batch manager sees it (an exception that escaped is caught there)
OutcomeOfRun(returned) ==
    IF returned.outcome = "raised" THEN "exception"
    ELSE IF returned.success THEN "success" ELSE "failed"

\* execute_agent is called for the next task agent once the run of the
\* previous one has been recorded
DispatchTaskRun ==
    /\ run.pc \in {"idle", "recorded"}
    /\ NoneCreated
    /\ ExecuteAgentCall

\* Task i registers its request and starts runtime.execute, which runs up
\* to its first completion request
TaskRunStart(i) ==
    /\ run.pc \in {"idle", "recorded"}
    /\ RegisterExecution(i)
    /\ run' = [IdleRun EXCEPT !.kind = "task", !.pc = "request", !.task = i]
    /\ round_calls' = NoRound
    /\ messages' = <<>>
    /\ transcript' = <<>>
    /\ UNCHANGED <<trigVars, summVars, codecVars>>

\* runtime.execute has handed its result to execute_agent, which records it
TaskRunReturn(i) ==
    /\ run.kind = "task"
    /\ run.pc = "done"
    /\ run.task = i
    /\ CompleteExecution(i, OutcomeOfRun(run.returned))
    /\ run' = [run EXCEPT !.pc = "recorded"]
    /\ UNCHANGED <<round_calls, messages, transcript>>
    /\ UNCHANGED <<trigVars, summVars, codecVars>>

----------------------------------------------------------------------------

vars == <<batchVars, trigVars, summVars, toolVars, codecVars>>

InitTriggers ==
    /\ store = <<>>
    /\ now = 0
    /\ in_flight = {}
    /\ launched = <<>>
    /\ execs = <<>>
    /\ last_event = NoEvent
    /\ running = FALSE

InitBatchManager ==
    /\ batch_state = NoBatch
    /\ pending_exec = [r \in {} |-> 0]
    /\ tasks = <<>>
    /\ next_uuid = 0
    /\ dispatched = <<>>
    /\ turn = 0
    /\ turn_pc = "idle"
    /\ round = 0

\* Normal operation: turns dispatch task agents, which register and complete
NextBatch ==
    \/ StartTurn
    \/ ToolRound
    \/ FinalResponse
    \/ \E i \in 1..Len(tasks) : TaskStart(i)
    \/ \E i \in 1..Len(tasks), o \in Outcomes : TaskComplete(i, o)

\* The files are new, the scheduler is idle and no clear() is under way
InitConversation ==
    /\ conv_log = <<>>
    /\ wm_file = EmptyFile
    /\ summ_pending = FALSE
    /\ summ_running = FALSE
    /\ workers = <<>>
    /\ appended = 0
    /\ loop_step = FreeStep
    /\ clear_pc = "idle"
    /\ clears = 0
    /\ summ_event = NoSummEvent
    /\ fold_failed = FALSE

InitToolLoop ==
    /\ run = IdleRun
    /\ round_calls = NoRound
    /\ messages = <<>>
    /\ transcript = <<>>

Init ==
    /\ InitBatchManager
    /\ InitTriggers
    /\ InitConversation
    /\ settings = DefaultSettings
    /\ InitToolLoop
    /\ codec = NoCodec

SpecBatch == Init /\ [][NextBatch]_vars

\* The whole interface: also cancellation, shutdown() and caller-supplied ids
NextBatchOps ==
    \/ NextBatch
    \/ \E i \in 1..Len(tasks) : Cancel(i)
    \/ Shutdown
    \/ ExecuteAgentCall

SpecBatchOps == Init /\ [][NextBatchOps]_vars

\* Turns whose only dispatches are the RoundOfThree ones of one tool round
NextThreeDispatches ==
    \/ StartTurn
    \/ ThreeDispatches
    \/ FinalResponse
    \/ \E i \in 1..Len(tasks) : TaskStart(i)
    \/ \E i \in 1..Len(tasks), o \in Outcomes : TaskComplete(i, o)

SpecThreeDispatches == Init /\ [][NextThreeDispatches]_vars

\* The trigger scheduler with its store and clock
NextTrigger ==
    \/ Tick
    \/ CreateTrigger
    \/ StartScheduler
    \/ PollOnce
    \/ \E e \in 1..Len(execs) : ExecStart(e)
    \/ \E e \in 1..Len(execs), kind \in FinishKinds : ExecFinish(e, kind)

SpecTrigger == Init /\ [][NextTrigger]_vars

\* The scheduler of an application that is shut down and started again
NextTriggerStop ==
    \/ NextTrigger
    \/ StopScheduler

SpecTriggerStop == Init /\ [][NextTriggerStop]_vars

\* The first trigger of a store, which its agent updates through the
\* updateTrigger tool (status, payload or rule) while the scheduler runs it
CreateFirstTrigger ==
    /\ store = <<>>
    /\ CreateTrigger

NextTriggerPause ==
    \/ Tick
    \/ CreateFirstTrigger
    \/ StartScheduler
    \/ UpdateTrigger
    \/ PollOnce
    \/ \E e \in 1..Len(execs) : ExecStart(e)
    \/ \E e \in 1..Len(execs), kind \in FinishKinds : ExecFinish(e, kind)

SpecTriggerPause == Init /\ [][NextTriggerPause]_vars

\* The scheduler with the first trigger of a store
NextFirstTrigger ==
    \/ Tick
    \/ CreateFirstTrigger
    \/ StartScheduler
    \/ PollOnce
    \/ \E e \in 1..Len(execs) : ExecStart(e)
    \/ \E e \in 1..Len(execs), kind \in FinishKinds : ExecFinish(e, kind)

\* The application starts the scheduler, which then never gives up: the
\* clock advances, _run polls again after every sleep, the event loop runs
\* every task it holds, and every execution ends, by its result, by the
\* timeout of execute_agent or by an exception
SpecTriggerFair ==
    /\ Init
    /\ [][NextFirstTrigger]_vars
    /\ WF_vars(Tick)
    /\ WF_vars(StartScheduler)
    /\ WF_vars(PollOnce)
    /\ WF_vars(\E e \in 1..Len(execs) : ExecStart(e))
    /\ WF_vars(\E e \in 1..Len(execs), kind \in FinishKinds : ExecFinish(e, kind))

\* The conversation log with its summarization worker, started under each
\* of the settings
InitSummary ==
    /\ InitBatchManager
    /\ InitTriggers
    /\ InitConversation
    /\ settings \in SettingsInputs
    /\ InitToolLoop
    /\ codec = NoCodec

NextSummary ==
    \/ RecordMessage
    \/ AppendEntry
    \/ WorkerStart
    \/ LoadState
    \/ \E w \in 1..Len(workers), kind \in ResponseKinds : FoldResponse(w, kind)
    \/ WriteState
    \/ ClearLog
    \/ ClearWorkingMemory

SpecSummary == InitSummary /\ [][NextSummary]_vars

\* One run of a tool-calling loop, of either kind
NextToolLoop ==
    \/ \E kind \in LoopKinds : StartRun(kind)
    \/ \E reason \in FailureReasons : RequestFails(reason)
    \/ \E raw \in RawToolCalls : LlmResponse(raw, "")
    \/ ExecuteTool

SpecToolLoop == Init /\ [][NextToolLoop]_vars

\* Task agents run one after the other through execute_agent, each with its
\* tool-calling loop spelled out; a conversational run may follow
NextTaskRun ==
    \/ DispatchTaskRun
    \/ \E i \in 1..Len(tasks) : TaskRunStart(i)
    \/ \E kind \in {"conversation"} : StartRun(kind)
    \/ \E reason \in FailureReasons : RequestFails(reason)
    \/ \E raw \in RawToolCalls : LlmResponse(raw, "")
    \/ ExecuteTool
    \/ \E i \in 1..Len(tasks) : TaskRunReturn(i)

SpecTaskRun == Init /\ [][NextTaskRun]_vars

\* One entry written to a new log file and read back, for every tag and
\* every payload of up to MaxPayloadLen characters
InitCodec ==
    /\ InitBatchManager
    /\ InitTriggers
    /\ InitConversation
    /\ settings = DefaultSettings
    /\ InitToolLoop
    /\ codec \in { [NoCodec EXCEPT !.pc = "new", !.tag = tag, !.payload = payload] :
                       tag \in LogTags, payload \in PayloadStrings }

NextCodec ==
    \/ FormatLine
    \/ ReadEntries

SpecCodec == InitCodec /\ [][NextCodec]_vars

\* Turns of the interaction agent (execute or handle_agent_message) with
\* the replies they record
NextTurn ==
    \/ \E kind \in {"conversation"} : StartRun(kind)
    \/ \E reason \in FailureReasons : RequestFails(reason)
    \/ \E raw \in InteractionToolCalls, content \in Texts : LlmResponse(raw, content)
    \/ ExecuteTool

SpecTurn == Init /\ [][NextTurn]_vars

----------------------------------------------------------------------------
(* Properties of the batch manager *)

TaskIds == 1..Len(tasks)
DigestIds == 1..Len(dispatched)

\* Positions <<d, k>> of the delivered digests that hold task i's result
DigestPositions(i) ==
    {p \in UNION {{<<d, k>> : k \in DOMAIN dispatched[d].payload} : d \in DigestIds} :
        dispatched[p[1]].payload[p[2]].task = i}

\* Positions of the open batch's results list that hold task i's result
OpenPositions(i) == {k \in DOMAIN batch_state.results : batch_state.results[k].task = i}

\* Dispatches registered in batch b (the batch_id execute_agent got back)
RegisteredIn(b) == {i \in TaskIds : tasks[i].pc # "created" /\ tasks[i].batch_id = b}

\* Digests delivered for batch b
Seals(b) == {d \in DigestIds : dispatched[d].batch = b}

TasksOfTurn(t) == {i \in TaskIds : tasks[i].turn = t}
DigestsOfTurn(t) ==
    {d \in DigestIds : \E k \in DOMAIN dispatched[d].payload :
        tasks[dispatched[d].payload[k].task].turn = t}

TurnOver(t) == t < turn \/ (t = turn /\ turn_pc = "idle")
NoTaskLeft == \A i \in TaskIds : tasks[i].pc \in {"done", "cancelled"}

\* C1: a turn that dispatched n >= 1 task agents leads to exactly one call of
\* _dispatch_to_interaction_agent, whose digest covers all n results, whatever
\* the interleaving of registrations and completions and also when the
\* dispatches come from different tool rounds of the turn.
C1_OneDigestPerTurn ==
    \A t \in 1..turn :
        (/\ TurnOver(t)
         /\ TasksOfTurn(t) # {}
         /\ \A i \in TasksOfTurn(t) : tasks[i].pc = "done")
        => /\ Cardinality(DigestsOfTurn(t)) = 1
           /\ \A d \in DigestsOfTurn(t) :
                TasksOfTurn(t) \subseteq
                    {dispatched[d].payload[k].task : k \in DOMAIN dispatched[d].payload}

\* C2: every delivered digest holds exactly one entry per dispatch registered
\* in its batch, and the result of every finished execute_agent call is held
\* exactly once: in one position of one delivered digest, or, while its batch
\* is still open, in one position of the batch's results.
C2_DigestExactlyOnce ==
    /\ \A d \in DigestIds :
         LET p == dispatched[d].payload
         IN /\ {p[k].task : k \in DOMAIN p} = RegisteredIn(dispatched[d].batch)
            /\ Len(p) = Cardinality(RegisteredIn(dispatched[d].batch))
    /\ \A i \in TaskIds :
         Cardinality(DigestPositions(i)) + Cardinality(OpenPositions(i))
            = IF tasks[i].pc = "done" THEN 1 ELSE 0
    /\ \A i \in TaskIds :
         tasks[i].pc = "done" /\ ~KnownBatch(batch_state, tasks[i].batch_id)
            => Cardinality(DigestPositions(i)) = 1

\* C2 witness: a digest of two results delivered in an order other than the
\* order of registration
C2_Witness ==
    \E d \in DigestIds :
        /\ Len(dispatched[d].payload) >= 2
        /\ dispatched[d].payload[1].task > dispatched[d].payload[2].task

\* C3: while no completion has been recorded the pending counter is the number
\* of registered dispatches; a batch is sealed at most once, and it is sealed
\* exactly when the last registered dispatch has been recorded: an open batch
\* always lacks a result, a closed one was delivered once with all of them.
C3_SealedOnceAtLastCompletion ==
    /\ batch_state.open =>
         /\ batch_state.pending
               = Cardinality(RegisteredIn(batch_state.batch_id)) - Len(batch_state.results)
         /\ Len(batch_state.results) < Cardinality(RegisteredIn(batch_state.batch_id))
         /\ Seals(batch_state.batch_id) = {}
    /\ \A b \in 1..next_uuid :
         /\ Cardinality(Seals(b)) <= 1
         /\ ~KnownBatch(batch_state, b) =>
              /\ Cardinality(Seals(b)) = 1
              /\ \A d \in Seals(b) :
                   Len(dispatched[d].payload) = Cardinality(RegisteredIn(b))

\* C3 witness: two dispatches of one round (both registered before either
\* completed) were sealed into one digest
C3_Witness ==
    \E d \in DigestIds :
        /\ Len(dispatched[d].payload) = 2
        /\ tasks[dispatched[d].payload[1].task].round
              = tasks[dispatched[d].payload[2].task].round
        /\ Cardinality(Seals(dispatched[d].batch)) = 1

\* C4: an open batch's pending counter is the number of _pending entries with
\* its batch_id and is at least 1, after any execute_agent calls (with or
\* without a caller-supplied request_id), timeouts, failures and shutdown().
C4_PendingMatchesEntries ==
    (\A i \in TaskIds : tasks[i].pc # "cancelled") =>
        (batch_state.open =>
            /\ batch_state.pending >= 1
            /\ batch_state.pending =
                  Cardinality({r \in DOMAIN pending_exec :
                                 pending_exec[r].batch_id = batch_state.batch_id}))

\* C5: no batch stays open for ever: once no task is left to run, no batch is
\* open and every batch that was opened has had its digest handed over, also
\* after a cancellation or a shutdown() with dispatches outstanding.
C5_EveryBatchDelivered ==
    NoTaskLeft =>
        /\ ~batch_state.open
        /\ \A b \in 1..next_uuid : Cardinality(Seals(b)) = 1

----------------------------------------------------------------------------
(* Properties of the trigger scheduler *)

TriggerIds == 1..Len(store)
ExecsOf(id) == {e \in DOMAIN execs : execs[e].id = id}

\* The execution that ended in the last step failed (a failed result or an
\* exception) / succeeded
JustFailed == last_event.kind \in {"failure", "raised"}
JustSucceeded == last_event.kind = "success"

\* The occurrences of the ended execution's rule later than its fired time
LaterOccurrences == {o \in Occurrences(last_event.rule) : o > last_event.fired_at}

\* Ids that the step adds to _in_flight
Launched == in_flight' \ in_flight

\* C6: at most one execution is in flight per trigger id: _in_flight holds
\* exactly the ids that have a live _execute_trigger task, one task each.
C6_OneExecutionPerTrigger ==
    /\ \A id \in TriggerIds : Cardinality(ExecsOf(id)) <= 1
    /\ in_flight = {execs[e].id : e \in DOMAIN execs}

\* C6 witness: a trigger is in flight and (still) due now, so the poll loop
\* fetches it and has to skip it
C6_Witness ==
    \E e \in DOMAIN execs :
        /\ execs[e].pc = "running"
        /\ IsDue(store[execs[e].id], to_storage_timestamp(now))
        /\ execs[e].fired_at < now

\* C7: after a failed execution of a recurring trigger (execute_agent returned
\* a failed result) the row has last_error = the error text, status active and
\* next_trigger = the first occurrence strictly after the fired time.
C7_RecurringFailureRecorded ==
    (last_event.kind = "failure" /\ last_event.rule # NoRule) =>
        LET row == store[last_event.id]
        IN /\ row.last_error = ErrorText(last_event.kind)
           /\ row.status = "active"
           /\ row.next_trigger \in LaterOccurrences
           /\ \A o \in LaterOccurrences : row.next_trigger <= o

\* C8: after a successful execution of a recurring trigger next_trigger is the
\* first occurrence of the rule strictly later than the fired time; without
\* such an occurrence next_trigger is cleared and the status is completed.
C8_RecurringSuccessAdvances ==
    (JustSucceeded /\ last_event.rule # NoRule) =>
        LET row == store[last_event.id]
        IN IF LaterOccurrences = {}
           THEN row.next_trigger = NoTime /\ row.status = "completed"
           ELSE /\ row.next_trigger \in LaterOccurrences
                /\ \A o \in LaterOccurrences : row.next_trigger <= o
                /\ row.next_trigger > last_event.fired_at
                /\ row.status = "active"

\* C8 witness: a recurring trigger succeeded, fired exactly at one of its
\* occurrences, and was re-armed
C8_Witness ==
    /\ JustSucceeded
    /\ last_event.rule # NoRule
    /\ last_event.fired_at \in Occurrences(last_event.rule)
    /\ store[last_event.id].next_trigger # NoTime

\* C9: after a successful execution of a one-shot trigger the row has status
\* completed and no next_trigger, and a completed trigger stays completed and
\* is never launched.
C9_OneShotCompleted ==
    /\ [](JustSucceeded /\ last_event.rule = NoRule =>
            /\ store[last_event.id].status = "completed"
            /\ store[last_event.id].next_trigger = NoTime)
    /\ [][\A id \in TriggerIds :
            store[id].status = "completed" =>
                /\ store'[id].status = "completed"
                /\ id \notin Launched]_vars

\* C9 witness: a one-shot trigger has just succeeded
C9_Witness == JustSucceeded /\ last_event.rule = NoRule /\ last_event.id \in TriggerIds

\* C10: after a failed execution of a one-shot trigger the row has last_error
\* = the error text, no next_trigger and status active, and a trigger without
\* next_trigger is not launched.
C10_OneShotFailureDormant ==
    /\ [](JustFailed /\ last_event.rule = NoRule =>
            /\ store[last_event.id].last_error = ErrorText(last_event.kind)
            /\ store[last_event.id].next_trigger = NoTime
            /\ store[last_event.id].status = "active")
    /\ [][\A id \in TriggerIds :
            store[id].next_trigger = NoTime => id \notin Launched]_vars

\* C10 witness: a one-shot trigger has just failed, and the clock has passed
\* the time it was due
C10_Witness ==
    /\ JustFailed
    /\ last_event.rule = NoRule
    /\ last_event.due # NoTime
    /\ last_event.due < now

----------------------------------------------------------------------------
(* Properties of the summarization worker and the working memory *)

\* The workers inside summarize_conversation: reading, awaiting the
\* completion, or writing
Summarizing == {w \in 1..Len(workers) : workers[w].pc \in {"pass", "fold", "commit"}}

\* The workers whose fold is under way: awaiting the completion or writing
InFold == {w \in 1..Len(workers) : workers[w].pc \in {"fold", "commit"}}

\* C11: at most one summarize_conversation call is executing at any time,
\* whatever the interleaving of appends, schedule_summarization calls and
\* completion responses.
C11_OneFoldAtATime == Cardinality(Summarizing) <= 1

\* A fold awaits its completion while a request came in and another worker
\* task is waiting to start
C11_Witness ==
    /\ Folding # {}
    /\ Queued # {}
    /\ summ_pending
    /\ \E w \in Folding : workers[w].during # {}

\* C12: when a fold ends, with content or with an error, and requests came
\* in while it ran, exactly one follow-up pass starts and takes all of them;
\* otherwise the worker goes idle; and the worker never goes idle while a
\* request is pending.
C12_FollowUpPass ==
    /\ [][(InFold # {} /\ \A w \in 1..Len(workers') : workers'[w].pc \notin {"fold", "commit"})
            => IF summ_pending
               THEN /\ Cardinality({w \in 1..Len(workers') : workers'[w].pc = "pass"}) = 1
                    /\ summ_running'
                    /\ ~summ_pending'
               ELSE /\ \A w \in 1..Len(workers') : workers'[w].pc = "queued"
                    /\ ~summ_running']_vars
    /\ [][(summ_running /\ ~summ_running') => ~summ_pending']_vars

\* A fold has just committed, entries were appended while it ran, and the
\* follow-up pass has read the conversation log
C12_Witness ==
    /\ summ_event.kind = "commit"
    /\ summ_event.during # {}
    /\ loop_step.pc = "load_state"
    /\ summ_running

\* The unfolded entries the working-memory file holds, as read back
Unfolded(file) ==
    [k \in 1..Len(file.lines) |->
        [tag |-> file.lines[k].tag, payload |-> decode_payload(file.lines[k].text),
         timestamp |-> file.lines[k].timestamp]]

\* The entries of the conversation log with an index above last_index
LogEntriesAfter(last_index) ==
    LET entries == EntriesAfter(collect_entries(conv_log), last_index)
    IN [k \in 1..Len(entries) |->
           [tag |-> entries[k].tag, payload |-> entries[k].payload,
            timestamp |-> entries[k].timestamp]]

\* C13: when a fold has committed, the unfolded list of the working memory
\* is the conversation-log entries above the fold's cutoff, in order, and
\* every entry appended while the completion call was in flight is in it
\* exactly once.
C13_InFlightEntriesKept ==
    summ_event.kind = "commit"
        => /\ Unfolded(wm_file) = LogEntriesAfter(summ_event.cutoff_index)
           /\ \A t \in summ_event.during :
                 Cardinality({k \in 1..Len(wm_file.lines) :
                                wm_file.lines[k].timestamp = t}) = 1

\* C14: whenever neither thread is between two lock sections, the unfolded
\* entries of the working-memory file are the conversation-log entries
\* above the persisted last_index, in log order.
C14_UnfoldedMatchesLog ==
    (loop_step.pc = "free" /\ clear_pc = "idle")
        => Unfolded(wm_file) = LogEntriesAfter(wm_file.last_index)

\* The step in which a pass, having read the log, loads the state and decides
PassDecides == loop_step.pc = "load_state" /\ loop_step'.pc # "load_state"

\* The number of unfolded entries the pass counts
PassCount == Len(EntriesAfter(loop_step.entries, wm_file.last_index))

\* C15 (as stated): a pass starts a fold iff summarization is enabled and
\* the number of unfolded entries is strictly greater than threshold +
\* tail_size; otherwise it makes no completion call and leaves the summary
\* and last_index as they are.
C15_FoldIffAbove ==
    [][PassDecides =>
         /\ (Folding' # {}) <=>
                (summarization_enabled
                 /\ PassCount > settings.threshold + settings.tail_size)
         /\ (Folding' = {}) => wm_file' = wm_file]_vars

\* C15 (amended): a pass starts a fold iff summarization is enabled and the
\* number of unfolded entries is at least threshold + tail_size; otherwise
\* it makes no completion call and leaves the summary and last_index as
\* they are.
C15_FoldIffAtLeast ==
    [][PassDecides =>
         /\ (Folding' # {}) <=>
                (summarization_enabled
                 /\ PassCount >= settings.threshold + settings.tail_size)
         /\ (Folding' = {}) => wm_file' = wm_file]_vars

\* A fold is under way that started with exactly threshold + tail_size
\* unfolded entries
C15_Witness ==
    /\ Folding # {}
    /\ clears = 0
    /\ \E w \in Folding : workers[w].during = {}
    /\ Len(conv_log) = wm_file.last_index + 1 + settings.threshold + settings.tail_size

\* C16: with threshold 5 and tail_size 2, once 7 entries are appended and
\* the worker has come to rest without an error, last_index is the index
\* of the 5th entry, the entries from the 6th on are the unfolded ones, and
\* the summary and last_index change in the same replacement of the file.
C16_FoldsOldestThreshold ==
    /\ []((/\ settings = [threshold |-> 5, tail_size |-> 2]
           /\ clears = 0 /\ ~fold_failed
           /\ appended >= 7
           /\ workers = <<>> /\ loop_step.pc = "free")
            => /\ wm_file.last_index = 4
               /\ wm_file.summary_text # EmptyFile.summary_text
               /\ Len(wm_file.lines) = appended - 5
               /\ \A k \in 1..Len(wm_file.lines) : wm_file.lines[k].timestamp = 5 + k)
    /\ [][(clear_pc' = clear_pc /\ wm_file'.last_index # wm_file.last_index)
            => wm_file'.summary_text # wm_file.summary_text]_vars

\* Seven entries were appended under threshold 5 and tail_size 2, the fold
\* has committed and the worker is at rest
C16_Witness ==
    /\ settings = [threshold |-> 5, tail_size |-> 2]
    /\ appended = 7
    /\ clears = 0
    /\ workers = <<>>
    /\ loop_step.pc = "free"
    /\ wm_file.last_index = 4
    /\ Len(wm_file.lines) = 2

\* C17: the persisted last_index never decreases except in clear, which
\* resets it to -1, and every fold that commits writes a value strictly
\* greater than the one it replaces.
C17_CursorOnlyForward ==
    [][IF clear_pc = "log_cleared" /\ clear_pc' = "idle"
       THEN wm_file'.last_index = -1
       ELSE /\ wm_file'.last_index >= wm_file.last_index
            /\ (loop_step.pc = "write_state" /\ loop_step'.pc # "write_state")
                 => wm_file'.last_index > wm_file.last_index]_vars

\* A second fold has committed on top of an earlier one
C17_Witness ==
    /\ summ_event.kind = "commit"
    /\ summ_event.cutoff_index >= 2 * settings.threshold - 1
    /\ clears = 0

----------------------------------------------------------------------------
(* Properties of the tool-calling loops *)

\* The tool messages appended since the last assistant entry
Observations == SelectSeq(messages, LAMBDA msg : msg.role = "tool")

\* Every parsed call of the current round has been processed
RoundComplete ==
    /\ run.iteration > 0
    /\ round_calls.parsed # <<>>
    /\ round_calls.next > Len(round_calls.parsed)

\* C18: a run makes at most MAX_TOOL_ITERATIONS completion requests; it ends
\* successfully at the first response that carries no tool invocation, and
\* it ends with the iteration-limit failure iff all MAX_TOOL_ITERATIONS
\* responses carry tool invocations.
C18_EndsWithinLimit ==
    /\ run.iteration <= MAX_TOOL_ITERATIONS
    /\ (run.pc = "done" /\ run.result = "success")
         => /\ round_calls.raw = <<>>
            /\ run.with_tools = run.iteration - 1
    /\ run.pc = "done"
         => (run.result = "iteration_limit" <=> run.with_tools = MAX_TOOL_ITERATIONS)

\* C19: when a round in which the response carried k tool invocations is
\* over and the next request is due, exactly k tool messages were appended,
\* the i-th answering the i-th invocation, nameless, unknown and
\* badly-argued invocations included.
C19_OneObservationPerInvocation ==
    (run.pc = "request" /\ run.iteration > 0)
        => /\ Len(Observations) = Len(round_calls.raw)
           /\ \A k \in 1..Len(Observations) : Observations[k].tool_call_id = k

\* C20: in both loops, when a round is over, every invocation whose
\* arguments string could not be parsed has an observation with status
\* error, and every other named invocation of the round has its observation.
C20_UnparseableArgumentsReported ==
    RoundComplete
        => \A k \in 1..Len(round_calls.raw) :
              round_calls.raw[k].name # ""
                 => \E o \in 1..Len(Observations) :
                       /\ Observations[o].tool_call_id = k
                       /\ round_calls.raw[k].arguments = "unparseable"
                            => Observations[o].status = "error"

\* An invocation names a tool that is not in the registry, or one whose
\* callable raises when it runs with its parsed arguments
ToolFails(call) ==
    \/ call.name = "unknown"
    \/ call.name = "known" /\ call.arguments = "valid" /\ call.raises

\* Observation o answers invocation k of the round
Answers(o, k) == o \in 1..Len(Observations) /\ Observations[o].tool_call_id = k

\* C21: in both loops, an invocation whose tool is not in the registry or
\* whose callable raises gets an observation with status error as soon as
\* it is processed; the loop then goes on to the next invocation of the
\* round, so that when the round is over every named invocation has its
\* observation and, below the iteration limit, the next completion request
\* is due; a run ends in failure only for the iteration limit, a failed
\* completion request or a response without an assistant message.
C21_ToolFailureObserved ==
    /\ \A p \in 1..Len(round_calls.parsed) :
          (p < round_calls.next /\ ToolFails(round_calls.parsed[p].call))
             => \E o \in 1..Len(Observations) :
                   /\ Answers(o, round_calls.parsed[p].id)
                   /\ Observations[o].status = "error"
    /\ run.pc = "tools" => round_calls.next <= Len(round_calls.parsed)
    /\ RoundComplete
         => /\ \A k \in 1..Len(round_calls.raw) :
                  round_calls.raw[k].name # "" => \E o \in 1..Len(Observations) : Answers(o, k)
            /\ run.pc \in {"request", "done"}
            /\ run.pc = "done" => run.result \in FailureReasons \cup {"iteration_limit"}
            /\ run.result = "iteration_limit" => run.iteration = MAX_TOOL_ITERATIONS
    /\ (run.pc = "done" /\ run.result # "success")
         => run.result \in FailureReasons \cup {"iteration_limit"}

\* A round whose first invocation failed and whose second one succeeded is
\* over and the next request is due
C21_Witness ==
    /\ RoundComplete
    /\ run.pc = "request"
    /\ Len(round_calls.raw) = 2
    /\ ToolFails(round_calls.raw[1])
    /\ \E o \in 1..Len(Observations) : Answers(o, 1) /\ Observations[o].status = "error"
    /\ \E o \in 1..Len(Observations) : Answers(o, 2) /\ Observations[o].status = "success"

\* C22: a run of either loop that has ended has handed a result to its
\* caller and raised nothing; the result has success=True iff the loop ended
\* with a final response, and otherwise success=False with the error text
\* of the iteration limit, the failed completion request or the missing
\* assistant message. The result of a task agent's run is then recorded by
\* the batch manager, the failed one like the successful one: it makes one
\* digest entry, marked FAILED with the "Failed to complete task" text iff
\* the run failed.
C22_ExecuteNeverRaises ==
    /\ run.pc \in {"done", "recorded"} <=> run.returned # NoReturn
    /\ run.pc \in {"done", "recorded"}
         => /\ run.returned.outcome = "result"
            /\ run.returned.success <=> run.result = "success"
            /\ ~run.returned.success
                 => /\ run.returned.error = run.result
                    /\ run.result \in FailureReasons \cup {"iteration_limit"}
    /\ run.pc = "recorded"
         => /\ Cardinality(DigestPositions(run.task)) = 1
            /\ \A e \in DigestPositions(run.task) :
                  LET entry == dispatched[e[1]].payload[e[2]]
                  IN /\ entry.status = IF run.returned.success THEN "SUCCESS" ELSE "FAILED"
                     /\ entry.text = IF run.returned.success THEN "done"
                                      ELSE "Failed to complete task"

\* A task agent's run that hit the iteration limit has been recorded
C22_Witness ==
    /\ run.pc = "recorded"
    /\ run.result = "iteration_limit"
    /\ run.returned = [outcome |-> "result", success |-> FALSE, error |-> "iteration_limit"]
    /\ \E e \in DigestPositions(run.task) : dispatched[e[1]].payload[e[2]].status = "FAILED"

----------------------------------------------------------------------------
(* Further properties of the batch manager *)

\* Tasks whose runtime.execute did not finish within timeout_seconds
TimedOut == {i \in TaskIds : tasks[i].pc = "done" /\ tasks[i].outcome = "timeout"}

\* Dispatches of batch b that have not completed
Outstanding(b) == {i \in RegisteredIn(b) : tasks[i].pc = "running"}

\* Entries of digest d marked FAILED
FailedEntries(d) ==
    {k \in DOMAIN dispatched[d].payload : dispatched[d].payload[k].status = "FAILED"}

\* Batch b had RoundOfThree dispatches: one timed out, the others succeeded
ThreeWithOneTimeout(b) ==
    /\ Cardinality(RegisteredIn(b)) = RoundOfThree
    /\ Cardinality(RegisteredIn(b) \cap TimedOut) = 1
    /\ \A i \in RegisteredIn(b) \ TimedOut :
          tasks[i].pc = "done" /\ tasks[i].outcome = "success"

\* C23: a task agent that timed out has completed its execute_agent call:
\* its request is no longer in _pending and its result, with success=False
\* and error "Timeout", is held once, by the open batch (whose pending
\* counter then counts the dispatches still running) or by a digest, where
\* its entry is marked FAILED. A batch of three dispatches of which two
\* succeeded and one timed out is delivered as exactly one digest, which has
\* three entries, exactly one of them marked FAILED.
C23_TimeoutRecorded ==
    /\ \A i \in TimedOut :
          /\ RequestIdOf(i) \notin DOMAIN pending_exec
          /\ Cardinality(DigestPositions(i)) + Cardinality(OpenPositions(i)) = 1
          /\ \A k \in OpenPositions(i) :
                /\ ~batch_state.results[k].success
                /\ batch_state.results[k].error = "Timeout"
                /\ batch_state.batch_id = tasks[i].batch_id
                /\ batch_state.pending = Cardinality(Outstanding(tasks[i].batch_id))
          /\ \A p \in DigestPositions(i) :
                /\ dispatched[p[1]].batch = tasks[i].batch_id
                /\ dispatched[p[1]].payload[p[2]].status = "FAILED"
                /\ dispatched[p[1]].payload[p[2]].text = "Execution timed out"
    /\ \A b \in 1..next_uuid :
          ThreeWithOneTimeout(b)
             => /\ Cardinality(Seals(b)) = 1
                /\ \A d \in Seals(b) :
                      /\ Len(dispatched[d].payload) = RoundOfThree
                      /\ Cardinality(FailedEntries(d)) = 1

\* The digest of a batch of three with one timeout, which was not the last
\* of the three to complete, has been delivered
C23_Witness ==
    \E b \in 1..next_uuid :
        /\ ThreeWithOneTimeout(b)
        /\ \E d \in Seals(b) :
              /\ Len(dispatched[d].payload) = 3
              /\ dispatched[d].payload[3].status = "SUCCESS"
              /\ Cardinality(FailedEntries(d)) = 1

\* Task i's result reached _complete_execution with a batch_id that is not
\* the open batch's, and was dropped
Dropped(i) ==
    /\ tasks[i].pc = "done"
    /\ DigestPositions(i) = {}
    /\ OpenPositions(i) = {}

\* C24: when an execute_agent call reaches _complete_execution with a
\* batch_id other than the open batch's (its batch was discarded by
\* shutdown; another batch may have been opened since), the call completes,
\* the batch state - the open batch's pending counter and results, or the
\* absence of a batch - stays as it was, and nothing is dispatched.
C24_StaleResultDropped ==
    [][\A i \in TaskIds :
          (/\ tasks[i].pc = "running"
           /\ tasks'[i].pc = "done"
           /\ ~(batch_state.open /\ batch_state.batch_id = tasks[i].batch_id))
          => /\ batch_state' = batch_state
             /\ dispatched' = dispatched]_vars

\* A result was dropped while a batch opened after the shutdown is collecting
C24_Witness ==
    \E i \in TaskIds :
        /\ Dropped(i)
        /\ batch_state.open
        /\ batch_state.batch_id # tasks[i].batch_id
        /\ batch_state.pending = 1
        /\ batch_state.results = <<>>

\* C25: the entries of every digest, and the results of the open batch, are
\* in the order in which _complete_execution recorded them.
C25_CompletionOrder ==
    /\ \A d \in DigestIds :
          \A k, l \in DOMAIN dispatched[d].payload :
              k < l => tasks[dispatched[d].payload[k].task].seq
                         < tasks[dispatched[d].payload[l].task].seq
    /\ \A k, l \in DOMAIN batch_state.results :
          k < l => tasks[batch_state.results[k].task].seq < tasks[batch_state.results[l].task].seq

\* A digest whose first entry is the dispatch registered last
C25_Witness ==
    \E d \in DigestIds :
        /\ Len(dispatched[d].payload) = 2
        /\ dispatched[d].payload[1].task > dispatched[d].payload[2].task
        /\ tasks[dispatched[d].payload[1].task].seq < tasks[dispatched[d].payload[2].task].seq

\* The turns whose dispatches batch b collected
TurnsOfBatch(b) == {tasks[i].turn : i \in RegisteredIn(b)}

\* C26: every batch collects the dispatches of one conversational turn only,
\* so no digest mixes the results of two turns.
C26_OneTurnPerBatch ==
    \A b \in 1..next_uuid : Cardinality(TurnsOfBatch(b)) <= 1

----------------------------------------------------------------------------
(* Further properties of the trigger scheduler *)

\* The update of the last step changed a recurring trigger from paused to
\* active
JustResumed == last_event.kind = "resumed" /\ last_event.rule # NoRule

\* The next_trigger stored before the update of the last step had been
\* missed by more than the grace period, or was null
WasStale ==
    \/ last_event.due = NoTime
    \/ now - last_event.due > MISSED_TRIGGER_GRACE_PERIOD

\* The occurrences of the updated trigger's rule at or after now
OccurrencesFromNow == {o \in Occurrences(last_event.rule) : o >= now}

\* C27: when update_trigger has changed a recurring trigger from paused to
\* active, then if the next_trigger stored before was null or more than
\* MISSED_TRIGGER_GRACE_PERIOD before now, the stored next_trigger is the
\* first occurrence of the rule at or after now (null if the rule has none
\* left), and in no case an earlier time; if it was within the grace period
\* (or ahead of now), the stored next_trigger is what it was.
C27_ResumeRecomputesStale ==
    JustResumed =>
        LET row == store[last_event.id]
        IN IF WasStale
           THEN /\ row.next_trigger = Earliest(OccurrencesFromNow)
                /\ row.next_trigger = NoTime \/ row.next_trigger >= now
                /\ row.status = "active"
           ELSE /\ row.next_trigger = last_event.due
                /\ row.status = "active"

\* A paused recurring trigger whose next_trigger was missed by more than the
\* grace period was resumed and re-armed at a later occurrence
C27_Witness ==
    /\ JustResumed
    /\ WasStale
    /\ last_event.due # NoTime
    /\ store[last_event.id].next_trigger >= now
    /\ store[last_event.id].next_trigger > last_event.due

\* C28: the poll loop launches only triggers whose status is active, and an
\* update_trigger call that only sets the status to paused leaves the stored
\* next_trigger as it was.
C28_PausedNeverLaunched ==
    /\ [][\A id \in Launched : store[id].status = "active"]_vars
    /\ [](last_event.kind = "paused"
            => /\ store[last_event.id].status = "paused"
               /\ store[last_event.id].next_trigger = last_event.due)

\* The scheduler is running and a paused trigger that is not in flight has
\* a next_trigger in the past, kept by the update that paused it
C28_Witness ==
    /\ running
    /\ last_event.kind = "paused"
    /\ last_event.id \notin in_flight
    /\ store[last_event.id].status = "paused"
    /\ store[last_event.id].next_trigger # NoTime
    /\ store[last_event.id].next_trigger < to_storage_timestamp(now)

\* Trigger id is active and due at the cutoff of a poll made now
DueNow(id) == id \in TriggerIds /\ IsDue(store[id], to_storage_timestamp(now))

\* The clock of the model has stopped before the next occurrence of id
ClockEndsBefore(id) ==
    id \in TriggerIds /\ now = MaxTime /\ store[id].next_trigger > now

\* C29: while the scheduler is running, every trigger that is active, due
\* and not in flight is eventually launched. A failed or raising execution
\* of a recurring trigger whose rule has a later occurrence leaves the
\* trigger active and armed at a later occurrence, and the trigger is
\* launched again (unless the model's clock ends before that occurrence).
C29_DueEventuallyLaunched ==
    /\ \A id \in 1..MaxTriggers :
          (running /\ DueNow(id) /\ id \notin in_flight) ~> (id \in in_flight)
    /\ [](JustFailed /\ last_event.rule # NoRule /\ LaterOccurrences # {}
            => /\ store[last_event.id].status = "active"
               /\ store[last_event.id].next_trigger \in LaterOccurrences)
    /\ \A id \in 1..MaxTriggers :
          (JustFailed /\ last_event.id = id /\ last_event.rule # NoRule
             /\ LaterOccurrences # {})
          ~> (id \in in_flight \/ ClockEndsBefore(id))

\* The execution of a recurring trigger has failed after the next occurrence
\* of its rule: the trigger is due again at once
C29_Witness ==
    /\ running
    /\ JustFailed
    /\ last_event.rule # NoRule
    /\ DueNow(last_event.id)
    /\ last_event.id \notin in_flight

\* An execution ended in the last step
JustEnded == last_event.kind \in FinishKinds

\* The row of the trigger whose execution just ended holds the update of
\* _handle_success or _handle_failure
UpdateApplied ==
    LET row == store[last_event.id]
    IN IF last_event.rule = NoRule \/ LaterOccurrences = {}
       THEN /\ row.next_trigger = NoTime
            /\ (JustSucceeded \/ last_event.rule # NoRule) => row.status = "completed"
            /\ (JustFailed /\ last_event.rule = NoRule)
                  => row.last_error = ErrorText(last_event.kind)
       ELSE /\ row.next_trigger \in LaterOccurrences
            /\ \A o \in LaterOccurrences : row.next_trigger <= o

\* C30: the poll loop launches executions only while the scheduler is
\* running, so none after stop(); stop() itself leaves the executions in
\* flight, _in_flight and the store as they are; and an execution that ends
\* while the scheduler is stopped has applied its success or failure update
\* to the store and removed its id from _in_flight, every id in _in_flight
\* still having its live execution.
C30_StopLeavesExecutions ==
    /\ [][Launched # {} => running]_vars
    /\ [][(running /\ ~running') => UNCHANGED <<execs, in_flight, store>>]_vars
    /\ [](in_flight = {execs[e].id : e \in DOMAIN execs})
    /\ []((~running /\ JustEnded)
            => /\ last_event.id \notin in_flight
               /\ UpdateApplied)

\* An execution that was in flight when the scheduler was stopped has ended
\* and re-armed its recurring trigger, which is due and is not launched
C30_Witness ==
    /\ ~running
    /\ JustEnded
    /\ last_event.rule # NoRule
    /\ last_event.id \notin in_flight
    /\ store[last_event.id].next_trigger \in LaterOccurrences
    /\ DueNow(last_event.id)

----------------------------------------------------------------------------
(* Further properties of the tool-calling loops *)

\* The transcript entries written for the invocation with id k
RecordsOfCall(k) ==
    {t \in 1..Len(transcript) : transcript[t].tool_call_id = k}

\* C31: in both loops, every invocation of the round that has been
\* processed has left in the transcript of the agent running the loop an
\* entry for the invocation and an entry for its outcome, before the next
\* invocation is processed and before the next completion request is made.
C31_InvocationsRecorded ==
    \A p \in 1..Len(round_calls.parsed) :
        p < round_calls.next
           => \E a, o \in RecordsOfCall(round_calls.parsed[p].id) :
                 /\ a <= o
                 /\ transcript[o].status \in {"success", "error"}

\* The texts send_message_to_user recorded as replies in the turn and
\* Python takes as true
SentTexts == {t \in run.replies : t # ""}

----------------------------------------------------------------------------
(* Properties of the text of a log line *)

\* C33: an entry written to a new log and read back is one entry with the
\* tag and the payload that were written, whatever the payload over newline,
\* carriage return, backslash, n, <, > and &.
C33_PayloadRoundTrip ==
    codec.pc = "read"
        => codec.entries = << [tag |-> <<codec.tag>>, payload |-> codec.payload] >>

----------------------------------------------------------------------------
(* Further properties of the summarization worker *)

\* The workers whose fold has its summary and is about to write it
Committing == {w \in 1..Len(workers) : workers[w].pc = "commit"}

\* The step in which a fold ends without a summary
FoldGivesUp == Folding # {} /\ Folding' = {} /\ Committing' = {}

\* C34: a fold has made at most one completion request that failed while
\* it waits for another, so it makes at most two; the step in which a fold
\* gives up leaves the working-memory file as it is (summary, cursor and
\* unfolded entries) and leaves the worker either in its next pass or
\* ended with _running reset, so that the next record_* call starts a
\* worker.
C34_FailedFoldWritesNothing ==
    /\ [](\A w \in Folding : workers[w].attempt + 1 <= 2)
    /\ [][FoldGivesUp
            => /\ wm_file' = wm_file
               /\ conv_log' = conv_log
               /\ \/ \E w \in 1..Len(workers') : workers'[w].pc = "pass"
                  \/ (~summ_running' /\ Len(workers') = Len(workers) - 1)]_vars

\* After a fold that failed on its second attempt, a later fold is under way
C34_Witness ==
    /\ fold_failed
    /\ Folding # {}
    /\ \E w \in Folding : workers[w].attempt = 1

\* C35: when a fold has committed and a whole clear() ran while its
\* completion call was in flight, the working-memory file still has no
\* summary and last_index = -1, and every entry of the conversation log
\* (all appended after the clear) is among its unfolded entries.
C35_ClearNotUndone ==
    (summ_event.kind = "commit" /\ summ_event.cleared = "done")
        => /\ wm_file.summary_text = EmptyFile.summary_text
           /\ wm_file.last_index = -1
           /\ \A k \in 1..Len(conv_log) :
                 \E j \in 1..Len(wm_file.lines) :
                    wm_file.lines[j].timestamp = conv_log[k].timestamp

----------------------------------------------------------------------------
(* Properties of updates made through the updateTrigger tool *)

\* What schedule_next_occurrence, or clear_next_fire, gives for the rule
\* that the row of the ended execution's trigger holds now
NextFromStoredRule ==
    LET rule == store[last_event.id].recurrence_rule
    IN IF rule = NoRule THEN NoTime
       ELSE StoredTime(RuleAfter(rule, last_event.fired_at, FALSE))

\* C36: when an execution has ended, the row of its trigger has the
\* next_trigger and the status that follow from the row as it was stored at
\* that time, with the changes update_trigger made during the execution:
\* next_trigger is the first occurrence of the stored rule after fired_at
\* (null without a rule or without such an occurrence), and the status is
\* the stored one unless a one-shot trigger succeeded or the stored rule has
\* no occurrence left.
C36_UpdateDuringExecutionKept ==
    JustEnded =>
        LET row == store[last_event.id]
        IN /\ row.next_trigger = NextFromStoredRule
           /\ row.status =
                 IF \/ JustSucceeded /\ row.recurrence_rule = NoRule
                    \/ row.recurrence_rule # NoRule /\ NextFromStoredRule = NoTime
                 THEN "completed" ELSE last_event.status

\* C37: every launch of a trigger is for a later next_trigger than the
\* launch of that trigger before it, and when an execution has ended (its id
\* has left _in_flight) the stored next_trigger is null or later than the
\* next_trigger it was launched for.
C37_OccurrenceLaunchedOnce ==
    /\ [][\A id \in Launched : store[id].next_trigger > launched[id]]_vars
    /\ [](JustEnded
            => \/ store[last_event.id].next_trigger = NoTime
               \/ store[last_event.id].next_trigger > last_event.scheduled_for)

\* C38: an updateTrigger call with a payload and nothing else leaves the
\* next_trigger, the status and the recurrence_rule of the row as they were.
C38_PayloadOnlyKeepsSchedule ==
    last_event.kind = "payload" =>
        LET row == store[last_event.id]
        IN /\ row.payload = NewPayload
           /\ row.next_trigger = last_event.due
           /\ row.status = last_event.status
           /\ row.recurrence_rule = last_event.rule

\* A payload-only update of a one-shot trigger that is dormant after a
\* failed execution leaves it dormant
C38_DormantStaysDormant ==
    (/\ last_event.kind = "payload"
     /\ last_event.rule = NoRule
     /\ last_event.due = NoTime
     /\ last_event.status = "active"
     /\ store[last_event.id].last_error # NULL)
    => store[last_event.id].next_trigger = NoTime

----------------------------------------------------------------------------
(* The backlog the summarization worker leaves *)

\* The number of conversation-log entries above the persisted last_index
UnfoldedCount == Len(EntriesAfter(collect_entries(conv_log), wm_file.last_index))

\* The worker has ended, no request is pending and no thread is between two
\* lock sections
WorkerAtRest ==
    /\ ~summ_running
    /\ ~summ_pending
    /\ workers = <<>>
    /\ loop_step.pc = "free"
    /\ clear_pc = "idle"

\* C39: with summarization enabled (and the history never cleared), whenever
\* the worker is at rest the number of unfolded entries is below threshold +
\* tail_size.
C39_BacklogBounded ==
    (summarization_enabled /\ clears = 0 /\ WorkerAtRest)
        => UnfoldedCount < settings.threshold + settings.tail_size

\* The same for the behaviours in which no fold has failed
C39_BacklogBoundedWithoutFailure ==
    (summarization_enabled /\ clears = 0 /\ ~fold_failed /\ WorkerAtRest)
        => UnfoldedCount < settings.threshold + settings.tail_size

----------------------------------------------------------------------------
(* The last round of a run that hits the iteration limit *)

\* C40: when a run has ended with the iteration-limit failure, none of the
\* tool invocations of its last response has been processed: the loop is
\* still before the first of them and no tool message follows the last
\* assistant entry.
C40_LastRoundNotExecuted ==
    (run.pc = "done" /\ run.result = "iteration_limit")
        => /\ round_calls.next = 1
           /\ Observations = << >>

====
